---- MODULE Spec2Model ----
(***************************************************************************)
(* Flight video generator (src/logging/flight_video_generator.py).        *)
(*                                                                         *)
(* One run of create_flight_video: time clipping and frame planning, the   *)
(* process pool whose workers run generate_single_frame, the collection    *)
(* of the futures in completion order, the validation of the frame files   *)
(* and the encoding of the video.                                          *)
(*                                                                         *)
(* Time is counted in ticks.  The aligned table is the ascending sequence  *)
(* of its row timestamps (its DatetimeIndex): the frame logic reads only   *)
(* the index.  The code counts nanoseconds since the epoch and passes the  *)
(* two ends of the clipped range through np.linspace, which computes in    *)
(* float64; at the magnitude of an epoch time in nanoseconds (2^60..2^61)  *)
(* consecutive float64 values are 256 ns apart, while the rows of a log    *)
(* carry microsecond timestamps.  The model keeps that ordering of scales: *)
(* one tick is the resolution of the row timestamps, Ulp ticks is the      *)
(* spacing of the float values, and a frame period (TicksPerSecond / fps)  *)
(* is at least Ulp.                                                        *)
(***************************************************************************)
EXTENDS Integers, Sequences, FiniteSets, TLC

\* ---------------------------------------------------------------- bounds
\* Row timestamps of the merged table are drawn from 0..MaxTime.
MaxTime == 7
\* The merged table has 1..MaxRows rows.
MaxRows == 3
\* Ticks in one second (the code: 10^9 ns).
TicksPerSecond == 4
\* Timestamps in the CSV files are drawn from 0..MaxLoadTime.
MaxLoadTime == 4
\* A CSV file whose row order is varied has up to MaxFileRows rows.
MaxFileRows == 3
\* An optional CSV file whose null cells are varied has up to MaxOptRows rows.
MaxOptRows == 2
\* --window is drawn from 1..MaxWindow ticks.
MaxWindow == 2
\* --start-frame is drawn from 0..MaxStartFrame.
MaxStartFrame == 2
\* --max-frames is None or drawn from 0..MaxMaxFrames.
MaxMaxFrames == 2
\* os.cpu_count() is None or drawn from 1..MaxCores.
MaxCores == 3
\* --fps values; every frame period TicksPerSecond / fps is at least Ulp.
FpsValues == {1, 2}

\* Spacing of the float64 values at the magnitude of the timestamps.
Ulp == 2

\* ---------------------------------------------------------------- values
\* Python's None and a present value, for optional arguments and results.
None == <<>>
Some(x) == <<x>>
IsNone(o) == o = <<>>
Val(o) == o[1]

Abs(x) == IF x < 0 THEN -x ELSE x
Min2(a, b) == IF a <= b THEN a ELSE b
Max2(a, b) == IF a >= b THEN a ELSE b

SetMin(S) == CHOOSE x \in S : \A y \in S : x <= y

RECURSIVE SortedSeq(_)
\* The ascending sequence of a finite set of timestamps.
SortedSeq(S) ==
  IF S = {} THEN <<>>
  ELSE LET m == SetMin(S) IN <<m>> \o SortedSeq(S \ {m})

Range(s) == {s[k] : k \in 1..Len(s)}

\* df_merged[(df_merged.index >= clip_start_time) & (df_merged.index <=
\* clip_end_time)]: the rows of the clipped table.
ClipRows(df, clip_start_time, clip_end_time) ==
  SelectSeq(df, LAMBDA t : t >= clip_start_time /\ t <= clip_end_time)

\* Variant of WindowRows: the lower bound compared with > instead of >=.
WindowRowsExclusiveStart(df, window_start, current_time) ==
  SelectSeq(df, LAMBDA t : t > window_start /\ t <= current_time)

\* Variant of WindowRows: the comparison with current_time left out.
WindowRowsNoEnd(df, window_start, current_time) ==
  SelectSeq(df, LAMBDA t : t >= window_start)

\* df_clipped[(df_clipped.index >= window_start) & (df_clipped.index <=
\* current_time)]: the rows of the look-back window of one frame.
WindowRows(df, window_start, current_time) ==
  SelectSeq(df, LAMBDA t : t >= window_start /\ t <= current_time)

SetMax(S) == CHOOSE x \in S : \A y \in S : x >= y

\* ------------------------------------------------------- frame planning
\* Conversion of an integer to float64 (np.linspace: asanyarray(x) * 1.0):
\* the nearest representable value, ties to the even mantissa.
Float64(x) ==
  LET lo == (x \div Ulp) * Ulp
      r  == x - lo
  IN  IF 2 * r < Ulp THEN lo
      ELSE IF 2 * r > Ulp THEN lo + Ulp
      ELSE IF (lo \div Ulp) % 2 = 0 THEN lo ELSE lo + Ulp

\* The float64 sum a + p/q (np.linspace: y = arange(num) * step + start) for a
\* representable a and an offset p/q >= 0: the offset is far below the
\* magnitude of a, so its own rounding is negligible and the sum is rounded
\* to the spacing of a.
Float64Add(a, p, q) ==
  LET lo == (p \div (q * Ulp)) * Ulp
      r  == p - lo * q
  IN  IF 2 * r < q * Ulp THEN a + lo
      ELSE IF 2 * r > q * Ulp THEN a + lo + Ulp
      ELSE IF ((a + lo) \div Ulp) % 2 = 0 THEN a + lo ELSE a + lo + Ulp

\* Variant of linspace: endpoint=False, the step is (stop - start) / num.
linspaceNoEndpoint(start, stop, num) ==
  LET a     == Float64(start)
      delta == Float64(stop) - a
  IN  [k \in 1..num |-> IF num > 1 THEN Float64Add(a, (k - 1) * delta, num) ELSE a]

\* np.linspace(start, stop, num) with endpoint=True, then pd.to_datetime: num
\* float64 values from start to stop, the last one set to stop; every value
\* is integral, so the cast to an integer timestamp keeps it.
linspace(start, stop, num) ==
  LET a     == Float64(start)
      b     == Float64(stop)
      delta == b - a
      div   == num - 1
  IN  [k \in 1..num |->
         IF div > 0
         THEN IF k = num THEN b ELSE Float64Add(a, (k - 1) * delta, div)
         ELSE a]

\* Variant of TotalPossibleFrames: round() instead of int().
TotalPossibleFramesRounded(start_time, end_time, fps) ==
  (2 * (end_time - start_time) * fps + TicksPerSecond) \div (2 * TicksPerSecond)

\* int(total_duration * fps), total_duration the seconds between the two
\* timestamps: int() truncates, the product is never negative.  The product
\* is taken exactly: its float64 rounding is relative (2^-53) and has no
\* counterpart at the scale of a tick.
TotalPossibleFrames(start_time, end_time, fps) ==
  ((end_time - start_time) * fps) \div TicksPerSecond

\* lst[start:] and lst[:stop] for non-negative bounds.
SliceFrom(lst, start) == SubSeq(lst, start + 1, Len(lst))
SliceTo(lst, stop) == SubSeq(lst, 1, Min2(stop, Len(lst)))

\* Variant of FrameIndices: max_frames applied before start_frame.
FrameIndicesMaxFirst(total, startFrame, maxFrames) ==
  LET all == [k \in 1..total |-> k - 1]
      afterMax == IF ~IsNone(maxFrames) THEN SliceTo(all, Val(maxFrames)) ELSE all
  IN  IF startFrame > 0
      THEN IF startFrame >= Len(afterMax) THEN <<>> ELSE SliceFrom(afterMax, startFrame)
      ELSE afterMax

\* Variant of FrameIndices: "if max_frames:" instead of "if max_frames is not
\* None", so that max_frames = 0 limits nothing.
FrameIndicesTruthyMax(total, startFrame, maxFrames) ==
  LET all == [k \in 1..total |-> k - 1]
      afterStart ==
        IF startFrame > 0
        THEN IF startFrame >= Len(all) THEN <<>> ELSE SliceFrom(all, startFrame)
        ELSE all
  IN  IF ~IsNone(maxFrames) /\ Val(maxFrames) # 0
      THEN SliceTo(afterStart, Val(maxFrames))
      ELSE afterStart

\* range(total) limited by start_frame, then by max_frames.
FrameIndices(total, startFrame, maxFrames) ==
  LET all == [k \in 1..total |-> k - 1]
      afterStart ==
        IF startFrame > 0
        THEN IF startFrame >= Len(all) THEN <<>> ELSE SliceFrom(all, startFrame)
        ELSE all
  IN  IF ~IsNone(maxFrames) THEN SliceTo(afterStart, Val(maxFrames)) ELSE afterStart

\* The arguments --start-time / --end-time: absent, unparsable, or an instant.
ClipTimes == {3, 6}
ClipArgs ==
  {[kind |-> "none", t |-> 0], [kind |-> "invalid", t |-> 0]}
    \cup {[kind |-> "time", t |-> t] : t \in ClipTimes}

\* clip_start_time and clip_end_time.
ClipStart(df, startArg) ==
  IF startArg.kind = "time" THEN Max2(SetMin(Range(df)), startArg.t)
  ELSE SetMin(Range(df))
ClipEnd(df, endArg) ==
  IF endArg.kind = "time" THEN Min2(SetMax(Range(df)), endArg.t)
  ELSE SetMax(Range(df))

NoPlan(err, clipped, total, stamps) ==
  [error |-> err, df_clipped |-> clipped, total_possible_frames |-> total,
   all_frame_timestamps |-> stamps, original_indices |-> <<>>]

\* create_flight_video up to the creation of the scratch directory: the plan,
\* or the error it returns with.
PlanFrames(df, startArg, endArg, framesPerSecond, startFrame, maxFrames) ==
  IF startArg.kind = "invalid" THEN NoPlan("invalid_start_time", <<>>, 0, <<>>)
  ELSE IF endArg.kind = "invalid" THEN NoPlan("invalid_end_time", <<>>, 0, <<>>)
  ELSE
  LET clip_start_time == ClipStart(df, startArg)
      clip_end_time   == ClipEnd(df, endArg)
  IN  IF clip_start_time >= clip_end_time
      THEN NoPlan("start_not_before_end", <<>>, 0, <<>>)
      ELSE
      LET clipped == ClipRows(df, clip_start_time, clip_end_time)
      IN  IF clipped = <<>> THEN NoPlan("no_data_in_range", clipped, 0, <<>>)
          ELSE
          LET start_time == SetMin(Range(clipped))
              end_time   == SetMax(Range(clipped))
              total      == TotalPossibleFrames(start_time, end_time, framesPerSecond)
              stamps     == linspace(start_time, end_time, total)
              indices    == FrameIndices(total, startFrame, maxFrames)
          IN  IF total <= 0 THEN NoPlan("no_frames", clipped, total, stamps)
              ELSE IF indices = <<>>
                   THEN NoPlan("no_frames_selected", clipped, total, stamps)
              ELSE [error |-> "none", df_clipped |-> clipped,
                    total_possible_frames |-> total,
                    all_frame_timestamps |-> stamps,
                    original_indices |-> indices]

\* -------------------------------------------------------- frame worker
\* generate_single_frame, the data handed to create_frame_figure: the rows in
\* the look-back window, the first row of the table when the window is empty
\* and that row is not after the instant, otherwise None (the frame is
\* skipped).
DataWindow(df, current_time, window) ==
  LET window_start == current_time - window
      in_window    == WindowRows(df, window_start, current_time)
      first_point  == SubSeq(df, 1, 1)
  IN  IF in_window # <<>> THEN Some(in_window)
      ELSE IF first_point # <<>> /\ first_point[1] <= current_time
           THEN Some(first_point)
           ELSE None

\* The width of the field in "{i:06d}".
FrameDigits == 6

RECURSIVE Digits(_)
\* The decimal digits of n, the most significant first.
Digits(n) == IF n < 10 THEN <<n>> ELSE Append(Digits(n \div 10), n % 10)

RECURSIVE DigitsValue(_)
\* The number written by a sequence of decimal digits.
DigitsValue(d) ==
  IF d = <<>> THEN 0 ELSE 10 * DigitsValue(SubSeq(d, 1, Len(d) - 1)) + d[Len(d)]

\* f"{i:06d}": the digits of i, with zeros in front up to six characters.
Format06d(i) ==
  LET d == Digits(i)
  IN  [k \in 1..(FrameDigits - Len(d)) |-> 0] \o d

\* os.path.join(temp_dir, f"frame_{i:06d}.png"): the name is made of the run's
\* scratch directory and the frame index.
FrameFilename(i) == <<"flight_video_frames", Format06d(i)>>
\* The frame index in a file name.
FrameIndexOf(filename) == DigitsValue(filename[2])

\* ----------------------------------------------------------- sequencing
\* frame_results is a dict in insertion order: a sequence of key/value pairs.
DictKeys(d) == {d[k].key : k \in 1..Len(d)}
DictGet(d, key) ==
  IF key \in DictKeys(d)
  THEN d[CHOOSE k \in 1..Len(d) : d[k].key = key].value
  ELSE None
\* d[key] = value: a new key goes last, a known key keeps its place.
DictSet(d, key, value) ==
  IF key \in DictKeys(d)
  THEN [k \in 1..Len(d) |->
          IF d[k].key = key THEN [key |-> key, value |-> value] ELSE d[k]]
  ELSE Append(d, [key |-> key, value |-> value])

\* The scratch directory: a set of files [name, size, readable]; readable
\* says whether the content is an image iio.imread can decode.
FileExists(dir, name) == \E f \in dir : f.name = name
FileSize(dir, name) == (CHOOSE f \in dir : f.name = name).size
\* pio.write_image: the file of that name is created or replaced.
WriteFile(dir, name, size, readable) ==
  {f \in dir : f.name # name}
    \cup {[name |-> name, size |-> size, readable |-> readable]}
\* iio.imread(filename) returns an image.
IsReadable(dir, name) == \E f \in dir : f.name = name /\ f.readable

\* Variant of IsValidFrameFile: the size is not looked at.
IsValidFrameFileExistsOnly(dir, filename) == FileExists(dir, filename)

\* os.path.exists(filename) and os.path.getsize(filename) > 0.
IsValidFrameFile(dir, filename) ==
  FileExists(dir, filename) /\ FileSize(dir, filename) > 0

\* Variant of SuccessfulFrameFiles: the loop runs over frame_results, that is
\* in the order in which the futures completed.
SuccessfulFrameFilesInCompletionOrder(indices, results, dir) ==
  LET kept == SelectSeq(results, LAMBDA e :
                ~IsNone(e.value) /\ FileExists(dir, Val(e.value))
                                 /\ FileSize(dir, Val(e.value)) > 0)
  IN  [k \in 1..Len(kept) |-> Val(kept[k].value)]

RECURSIVE SuccessfulFrameFilesUntilFailure(_, _, _)
\* Variant of SuccessfulFrameFiles: the loop ends at the first frame that has
\* no valid file.
SuccessfulFrameFilesUntilFailure(indices, results, dir) ==
  IF indices = <<>> THEN <<>>
  ELSE LET filename == DictGet(results, Head(indices))
       IN  IF ~IsNone(filename) /\ FileExists(dir, Val(filename))
                                /\ FileSize(dir, Val(filename)) > 0
           THEN <<Val(filename)>>
                  \o SuccessfulFrameFilesUntilFailure(Tail(indices), results, dir)
           ELSE <<>>

RECURSIVE SuccessfulFrameFiles(_, _, _)
\* The validation loop: for i in original_indices, frame_results.get(i) is
\* kept when it is a filename of a valid file.
SuccessfulFrameFiles(indices, results, dir) ==
  IF indices = <<>> THEN <<>>
  ELSE LET filename == DictGet(results, Head(indices))
           rest     == SuccessfulFrameFiles(Tail(indices), results, dir)
       IN  IF ~IsNone(filename) /\ IsValidFrameFile(dir, Val(filename))
           THEN <<Val(filename)>> \o rest
           ELSE rest

\* Variant of TaskList: a task carries its position in the sliced list.
TaskListByPosition(indices, stamps) ==
  [k \in 1..Len(indices) |->
     [original_index |-> k - 1, current_time |-> stamps[indices[k] + 1]]]

\* The tasks: one per selected index, with the instant of that index
\* (all_frame_timestamps[frame_indices_to_process], 0-based).
TaskList(indices, stamps) ==
  [k \in 1..Len(indices) |->
     [original_index |-> indices[k], current_time |-> stamps[indices[k] + 1]]]

\* ------------------------------------------------------------ stream loader
\* A table (a CSV file as pd.read_csv returns it, or a DataFrame) is a record
\* [columns, rows]: the set of column names and the sequence of rows, a row a
\* function from column name to an optional value (None is NaN / NaT).  The
\* timestamp of a row is an instant in ticks.  In the files of a loader run a
\* tick is 50 ms, the merge tolerance; create_flight_video counts the index of
\* the table it is given in ticks of 1 / TicksPerSecond seconds.

\* MIN_ROWS_THRESHOLD.
MIN_ROWS_THRESHOLD == 2

\* REQUIRED_COLS and OPTIONAL_COLS_TO_SELECT, with one data column for each
\* required type and two optional types: RCIN, whose columns are essential,
\* and POS, from which the distance from home is derived.
REQUIRED_COLS ==
  [ATT |-> <<"timestamp", "Roll">>, IMU |-> <<"timestamp", "GyrX">>]
RequiredTypes == <<"ATT", "IMU">>
OPTIONAL_COLS_TO_SELECT ==
  [RCIN |-> [timestamp |-> "timestamp", C1 |-> "RCIN_C1_Roll",
             C2 |-> "RCIN_C2_Pitch"],
   POS  |-> [timestamp |-> "timestamp", Lat |-> "POS_Lat", Lng |-> "POS_Lng"]]
OptionalTypes == <<"RCIN", "POS">>
MsgTypes == {"ATT", "IMU", "RCIN", "POS"}

\* pd.Timedelta('50ms'), in ticks.
tolerance == 1

Table(columns, rows) == [columns |-> columns, rows |-> rows]
Timestamp(row) == Val(row["timestamp"])

\* df.dropna(subset=cols): the rows in which no column of cols is null.
DropNa(rows, cols) ==
  SelectSeq(rows, LAMBDA row : \A c \in cols : ~IsNone(row[c]))

RECURSIVE InsertByTimestamp(_, _)
\* The sorted rows with one more row, put after the rows that are not later.
InsertByTimestamp(sorted, row) ==
  IF sorted = <<>> THEN <<row>>
  ELSE IF Timestamp(Head(sorted)) <= Timestamp(row)
       THEN <<Head(sorted)>> \o InsertByTimestamp(Tail(sorted), row)
       ELSE <<row>> \o sorted

\* Variant of SortValues: the rows are left in the order of the file.
SortValuesKeepOrder(rows) == rows

RECURSIVE SortValues(_)
\* df.sort_values('timestamp'): ascending, rows of one timestamp in file order.
SortValues(rows) ==
  IF rows = <<>> THEN <<>>
  ELSE InsertByTimestamp(SortValues(SubSeq(rows, 1, Len(rows) - 1)),
                         rows[Len(rows)])

\* df[cols].rename(columns=rename): the columns cols under their new names.
SelectAndRename(rows, cols, rename) ==
  [k \in 1..Len(rows) |->
     [c \in {rename[x] : x \in cols} |->
        rows[k][CHOOSE x \in cols : rename[x] = c]]]

\* The outcomes of load_and_prepare_csv: a table, None, or sys.exit(1).
Loaded(columns, rows) == [outcome |-> "df", df |-> Table(columns, rows)]
NotLoaded(why) == [outcome |-> "none", why |-> why]
Exits(why) == [outcome |-> "exit", why |-> why]

\* The timestamp column of a file is a column of date-time strings (kind
\* "csv": a cell is the instant it writes, in ticks, or None for a text that
\* is no date-time) or a column of integers (kind "csv_int": a cell is the
\* number, or None for an empty cell).  A tick is 50 ms.
NsPerTick == 50000000
UsPerTick == 50000

\* The rows with each timestamp n that is there replaced by n * mul \div by.
WithTimestamps(rows, mul, by) ==
  [k \in 1..Len(rows) |->
     [rows[k] EXCEPT !["timestamp"] =
        IF IsNone(rows[k]["timestamp"]) THEN None
        ELSE Some((Val(rows[k]["timestamp"]) * mul) \div by)]]

\* pd.to_datetime(df['timestamp']): a column of numbers is read as
\* nanoseconds since the epoch (an empty cell gives NaT); a column of strings
\* is parsed, and one string that is no date-time raises ValueError.
to_datetime(file) ==
  IF file.kind = "csv_int"
  THEN [raised |-> FALSE,
        rows |-> WithTimestamps(file.rows, 1, NsPerTick)]
  ELSE IF \E k \in 1..Len(file.rows) : IsNone(file.rows[k]["timestamp"])
       THEN [raised |-> TRUE, rows |-> <<>>]
       ELSE [raised |-> FALSE, rows |-> WithTimestamps(file.rows, 1, 1)]

\* pd.to_datetime(df['timestamp'], format='ISO8601', errors='coerce'): each
\* string is parsed on its own, one that is no date-time gives NaT.
to_datetime_iso8601(file) ==
  [raised |-> FALSE, rows |-> WithTimestamps(file.rows, 1, 1)]

\* pd.to_datetime(df['timestamp'], unit='us', errors='coerce'): the numbers
\* are microseconds since the epoch.
to_datetime_unit_us(file) ==
  [raised |-> FALSE,
   rows |-> WithTimestamps(file.rows, 1, UsPerTick)]

\* The three attempts of load_and_prepare_csv, in order: the second is made
\* when the first raises, the third when the second raises.
ParseTimestamps(file) ==
  IF ~to_datetime(file).raised THEN to_datetime(file).rows
  ELSE IF ~to_datetime_iso8601(file).raised THEN to_datetime_iso8601(file).rows
  ELSE to_datetime_unit_us(file).rows

\* Variant of load_and_prepare_csv: the minimum-rows gate is left out.
load_and_prepare_csv_NoMinRows(file, required_cols, optional_cols_select) ==
  IF file.kind = "not_found"
  THEN IF ~IsNone(required_cols) THEN Exits("file_not_found")
       ELSE NotLoaded("file_not_found")
  ELSE IF file.rows = <<>> THEN NotLoaded("empty")
  ELSE IF "timestamp" \notin file.columns THEN NotLoaded("no_timestamp")
  ELSE
  LET rows == SortValues(DropNa(ParseTimestamps(file), {"timestamp"}))
  IN  IF ~IsNone(required_cols)
         /\ Range(Val(required_cols)) \ file.columns # {}
      THEN Exits("missing_required_columns")
      ELSE IF ~IsNone(optional_cols_select)
      THEN LET sel == Val(optional_cols_select)
               present_cols == (DOMAIN sel) \cap file.columns
           IN  IF present_cols = {} THEN NotLoaded("no_usable_columns")
               ELSE Loaded({sel[c] : c \in present_cols},
                           SelectAndRename(rows, present_cols, sel))
      ELSE Loaded(file.columns, rows)

\* load_and_prepare_csv(filepath, msg_type, required_cols,
\* optional_cols_select) for the file a path leads to.
load_and_prepare_csv(file, required_cols, optional_cols_select) ==
  IF file.kind = "not_found"
  THEN IF ~IsNone(required_cols) THEN Exits("file_not_found")
       ELSE NotLoaded("file_not_found")
  ELSE IF file.rows = <<>> THEN NotLoaded("empty")
  ELSE IF "timestamp" \notin file.columns THEN NotLoaded("no_timestamp")
  ELSE
  LET rows == SortValues(DropNa(ParseTimestamps(file), {"timestamp"}))
  IN  IF Len(rows) < MIN_ROWS_THRESHOLD THEN NotLoaded("too_few_rows")
      ELSE IF ~IsNone(required_cols)
              /\ Range(Val(required_cols)) \ file.columns # {}
      THEN Exits("missing_required_columns")
      ELSE IF ~IsNone(optional_cols_select)
      THEN LET sel == Val(optional_cols_select)
               present_cols == (DOMAIN sel) \cap file.columns
           IN  IF present_cols = {} THEN NotLoaded("no_usable_columns")
               ELSE Loaded({sel[c] : c \in present_cols},
                           SelectAndRename(rows, present_cols, sel))
      ELSE Loaded(file.columns, rows)

\* df[REQUIRED_COLS[msg_type]].copy().
SelectColumns(df, cols) ==
  Table(cols, [k \in 1..Len(df.rows) |-> [c \in cols |-> df.rows[k][c]]])

\* The float inf as a cell value (the finite values of the model are positive).
Infinity == -1
IsFinite(o) == ~IsNone(o) /\ Val(o) # Infinity

\* Variant of haversine: an infinite input is taken for a number.
haversineOfNumbers(lat1, lon1, lat2, lon2) ==
  IF IsNone(lat1) \/ IsNone(lon1) \/ IsNone(lat2) \/ IsNone(lon2) THEN None
  ELSE Some(Abs(Val(lat2) - Val(lat1)) + Abs(Val(lon2) - Val(lon1)))

\* haversine(lat1, lon1, lat2, lon2): NaN when an input is NaN (the np.isnan
\* test); NaN again when an input is infinite (np.sin and np.cos of an
\* infinite angle are NaN, with a warning and no exception); otherwise the
\* distance of the two points (on the grid of the model, the sum of the
\* differences of the coordinates).
haversine(lat1, lon1, lat2, lon2) ==
  IF IsNone(lat1) \/ IsNone(lon1) \/ IsNone(lat2) \/ IsNone(lon2) THEN None
  ELSE IF ~IsFinite(lat1) \/ ~IsFinite(lon1) \/ ~IsFinite(lat2) \/ ~IsFinite(lon2)
  THEN None
  ELSE Some(Abs(Val(lat2) - Val(lat1)) + Abs(Val(lon2) - Val(lon1)))

\* pos_df.dropna(subset=['POS_Lat', 'POS_Lng']).iloc[0], or None.
FirstValidPos(pos_df) ==
  LET valid == DropNa(pos_df.rows, {"POS_Lat", "POS_Lng"})
  IN  IF valid = <<>> THEN None ELSE Some(valid[1])

\* pos_df with the column Distance_From_Home (pos_df.apply of haversine).
WithDistanceFromHome(pos_df, first_valid_pos) ==
  Table(pos_df.columns \cup {"Distance_From_Home"},
        [k \in 1..Len(pos_df.rows) |->
           [c \in pos_df.columns \cup {"Distance_From_Home"} |->
              IF c = "Distance_From_Home"
              THEN haversine(first_valid_pos["POS_Lat"], first_valid_pos["POS_Lng"],
                             pos_df.rows[k]["POS_Lat"], pos_df.rows[k]["POS_Lng"])
              ELSE pos_df.rows[k][c]]])

\* The row of right that merge_asof looks back to from instant t: the last
\* one not after t, 0 when there is none or it is beyond the tolerance.
AsofBackward(right, t, tol) ==
  LET before == {j \in 1..Len(right) : Timestamp(right[j]) <= t}
  IN  IF before = {} THEN 0
      ELSE IF t - Timestamp(right[SetMax(before)]) > tol THEN 0
      ELSE SetMax(before)

\* The row of right that merge_asof looks ahead to from instant t: the first
\* one not before t, 0 when there is none or it is beyond the tolerance.
AsofForward(right, t, tol) ==
  LET after == {j \in 1..Len(right) : Timestamp(right[j]) >= t}
  IN  IF after = {} THEN 0
      ELSE IF Timestamp(right[SetMin(after)]) - t > tol THEN 0
      ELSE SetMin(after)

\* direction='nearest': the closer of the two, the earlier one on a tie.
AsofNearest(right, t, tol) ==
  LET b == AsofBackward(right, t, tol)
      f == AsofForward(right, t, tol)
  IN  IF b # 0 /\ f # 0
      THEN IF t - Timestamp(right[b]) <= Timestamp(right[f]) - t THEN b ELSE f
      ELSE IF b # 0 THEN b ELSE f

RECURSIVE IntervalJoinRows(_, _, _, _, _)
\* The rows of an interval join from the k-th row of left on: a left row
\* once for each row of right within the tolerance, once with nulls if none.
IntervalJoinRows(left, right, k, tol, cols) ==
  IF k > Len(left.rows) THEN <<>>
  ELSE LET near == SelectSeq(right.rows, LAMBDA row :
                     Abs(Timestamp(row) - Timestamp(left.rows[k])) <= tol)
           joined == [j \in 1..Max2(Len(near), 1) |->
                        [c \in cols |->
                           IF c \in left.columns THEN left.rows[k][c]
                           ELSE IF near = <<>> THEN None ELSE near[j][c]]]
       IN  joined \o IntervalJoinRows(left, right, k + 1, tol, cols)

\* Variant of merge_asof: an interval join.
merge_asof_interval(left, right, tol) ==
  Table(left.columns \cup right.columns,
        IntervalJoinRows(left, right, 1, tol, left.columns \cup right.columns))

\* Variant of merge_asof: no tolerance, the nearest row is always attached.
merge_asof_unbounded(left, right, tol) ==
  LET cols == left.columns \cup right.columns
  IN  Table(cols,
        [k \in 1..Len(left.rows) |->
           LET j == AsofNearest(right.rows, Timestamp(left.rows[k]),
                                2 * MaxTime + tol)
           IN  [c \in cols |->
                  IF c \in left.columns THEN left.rows[k][c]
                  ELSE IF j = 0 THEN None ELSE right.rows[j][c]]])

\* Variant of merge_asof: a matched row takes the timestamp of the row of
\* right it was matched to.
merge_asof_right_keys(left, right, tol) ==
  LET cols == left.columns \cup right.columns
  IN  Table(cols,
        [k \in 1..Len(left.rows) |->
           LET j == AsofNearest(right.rows, Timestamp(left.rows[k]), tol)
           IN  [c \in cols |->
                  IF j # 0 /\ c \in right.columns THEN right.rows[j][c]
                  ELSE IF c \in left.columns THEN left.rows[k][c]
                  ELSE None]])

\* pd.merge_asof(left, right, on='timestamp', direction='nearest',
\* tolerance=tol): every row of left, in order, with the columns of the
\* matched row of right, or nulls when no row matches.  (The column names of
\* the tables of the model never collide, so no suffix is applied.)
merge_asof(left, right, tol) ==
  LET cols == left.columns \cup right.columns
  IN  Table(cols,
        [k \in 1..Len(left.rows) |->
           LET j == AsofNearest(right.rows, Timestamp(left.rows[k]), tol)
           IN  [c \in cols |->
                  IF c \in left.columns THEN left.rows[k][c]
                  ELSE IF j = 0 THEN None ELSE right.rows[j][c]]])

\* Variant of EssentialDropnaSubset: the RCIN columns are essential as soon
\* as RCIN was loaded.
EssentialDropnaSubsetAnyRcin(loaded, columns) ==
  {c \in Range(REQUIRED_COLS["ATT"]) \cup Range(REQUIRED_COLS["IMU"])
        \cup (IF "RCIN" \in Range(loaded)
              THEN {"RCIN_C1_Roll", "RCIN_C2_Pitch"} ELSE {}) :
     c \in columns}

\* essential_dropna_subset: the required columns of ATT and IMU, and the two
\* RCIN columns when RCIN was loaded and both are columns of the merged table.
EssentialDropnaSubset(loaded, columns) ==
  Range(REQUIRED_COLS["ATT"]) \cup Range(REQUIRED_COLS["IMU"])
    \cup (IF "RCIN" \in Range(loaded) /\ "RCIN_C1_Roll" \in columns
             /\ "RCIN_C2_Pitch" \in columns
          THEN {"RCIN_C1_Roll", "RCIN_C2_Pitch"} ELSE {})

\* df_merged.set_index('timestamp') then sort_index(): the rows in ascending
\* order of the index (the rows are already in that order).
SortIndex(rows) == SortValues(rows)

\* The index of a table: the timestamps of its rows, in order.
Index(rows) == [k \in 1..Len(rows) |-> Timestamp(rows[k])]

\* ------------------------------------------------------------------ state
VARIABLES
  \* arguments of create_flight_video
  df_merged, fps, window_duration_secs, start_frame, max_frames,
  start_time_str, end_time_str, disable_cleaning,
  \* where the run is: "start", "rendering", "encoding", "returned"
  pc,
  \* locals of create_flight_video
  df_clipped, total_possible_frames, all_frame_timestamps, original_indices,
  tasks, frame_results, successful_frame_files,
  \* the pool: per task, the state and the result of its future
  future,
  \* per task, the df_window its worker handed to create_frame_figure
  df_window,
  \* per task, what happened to its frame: "pending", "rendered", "no_data"
  \* (skipped for lack of data) or the fault that hit it
  fate,
  \* the scratch directory ("none", "exists", "removed") and its files
  temp_dir, files,
  \* the output video: None until the writer is opened, then its frames
  video,
  \* what the run reported: "none", "error", "saved"; and the error
  report, error,
  \* how the video writer behaved: "none" until it is opened, then "ok",
  \* "open_raises" (iio.get_writer raised) or "append_raises" (append_data
  \* raised for every frame)
  encoder,
  \* what was printed: a set of messages <<text, number>>
  log,
  \* the main block and load_and_merge_data: where the program is, the files
  \* named on the command line, the tables loaded from them, the optional
  \* types loaded, the home point, load_and_merge_data's own df_merged after
  \* the merges (aligned) and after the essential dropna (filtered:
  \* create_flight_video receives its index), the process exit code
  main, csv_filepaths, dataframes, loaded_optional_types, home, aligned,
  filtered, exit_code,
  \* what os.cpu_count() returns on the machine (None: the count is not
  \* available), and the local num_workers of create_flight_video (None
  \* until it is assigned)
  cpu_count, num_workers

args == <<df_merged, fps, window_duration_secs, start_frame, max_frames,
          start_time_str, end_time_str, disable_cleaning>>
locals == <<df_clipped, total_possible_frames, all_frame_timestamps,
            original_indices, tasks, frame_results, successful_frame_files>>
loader == <<csv_filepaths, dataframes, loaded_optional_types, home, aligned,
            filtered>>
workers == <<cpu_count, num_workers>>
vars == <<args, pc, locals, future, df_window, fate, temp_dir, files, video,
          report, error, encoder, log, main, loader, exit_code, workers>>

\* A printed message: its text, the message type and the number it names.
Msg(text, msg_type, n) == <<text, msg_type, n>>

\* No file for a message type (the option is not on the command line), a path
\* that leads to no file, and a path that leads to a CSV file.
NoPath == [kind |-> "none", columns |-> {}, rows |-> <<>>]
NotFound == [kind |-> "not_found", columns |-> {}, rows |-> <<>>]
CsvFile(columns, rows) == [kind |-> "csv", columns |-> columns, rows |-> rows]

NoDataFrames == [m \in MsgTypes |-> None]
NoTable == Table({}, <<>>)

RECURSIVE LoadRequiredData(_, _, _, _)
\* The loop over REQUIRED_COLS from its k-th type on: the tables loaded, with
\* how the loop ended ("ok", "return_none" or "exit") and what it printed.
LoadRequiredData(paths, k, frames, printed) ==
  IF k > Len(RequiredTypes)
  THEN [outcome |-> "ok", dataframes |-> frames, log |-> printed]
  ELSE
  LET msg_type == RequiredTypes[k]
      filepath == paths[msg_type]
      r == load_and_prepare_csv(filepath, Some(REQUIRED_COLS[msg_type]), None)
  IN  IF filepath.kind = "none"
      THEN [outcome |-> "return_none", dataframes |-> frames,
            log |-> printed \cup {Msg("path_not_provided", msg_type, 0)}]
      ELSE IF r.outcome = "exit"
      THEN [outcome |-> "exit", dataframes |-> frames,
            log |-> printed \cup {Msg(r.why, msg_type, 0)}]
      ELSE IF r.outcome = "none"
      THEN [outcome |-> "return_none", dataframes |-> frames,
            log |-> printed \cup {Msg(r.why, msg_type, 0),
                                  Msg("failed_to_load_required", msg_type, 0)}]
      ELSE LoadRequiredData(paths, k + 1,
             [frames EXCEPT ![msg_type] =
                Some(SelectColumns(r.df, Range(REQUIRED_COLS[msg_type])))],
             printed)

RECURSIVE LoadOptionalData(_, _, _, _, _)
\* The loop over OPTIONAL_COLS_TO_SELECT from its k-th type on: the tables
\* and the list of loaded optional types, and what it printed.
LoadOptionalData(paths, k, frames, loaded, printed) ==
  IF k > Len(OptionalTypes)
  THEN [dataframes |-> frames, loaded_optional_types |-> loaded, log |-> printed]
  ELSE
  LET msg_type == OptionalTypes[k]
      filepath == paths[msg_type]
      cols_select == OPTIONAL_COLS_TO_SELECT[msg_type]
      r == load_and_prepare_csv(filepath, None, Some(cols_select))
      missing_optional == (DOMAIN cols_select) \ filepath.columns
  IN  IF filepath.kind = "none"
      THEN LoadOptionalData(paths, k + 1, frames, loaded, printed)
      ELSE IF r.outcome # "df"
      THEN LoadOptionalData(paths, k + 1, frames, loaded,
                            printed \cup {Msg(r.why, msg_type, 0)})
      ELSE
      LET warned == IF missing_optional # {}
                    THEN {Msg("missing_expected_columns", msg_type,
                              Cardinality(missing_optional))}
                    ELSE {}
      IN  IF r.df.rows # <<>> /\ Cardinality(r.df.columns) > 1
          THEN LoadOptionalData(paths, k + 1,
                 [frames EXCEPT ![msg_type] = Some(r.df)],
                 Append(loaded, msg_type), printed \cup warned)
          ELSE LoadOptionalData(paths, k + 1, frames, loaded,
                 printed \cup warned \cup {Msg("no_data_columns", msg_type, 0)})

RECURSIVE MergeOptional(_, _, _, _)
\* The loop that merges the loaded optional types, from the k-th on.
MergeOptional(merged, frames, loaded, k) ==
  IF k > Len(loaded) THEN merged
  ELSE MergeOptional(
         IF ~IsNone(frames[loaded[k]])
         THEN merge_asof(merged, Val(frames[loaded[k]]), tolerance)
         ELSE merged,
         frames, loaded, k + 1)

\* All ascending tables of 1..MaxRows rows with timestamps in 0..MaxTime.
Tables ==
  {SortedSeq(S) : S \in {T \in SUBSET (0..MaxTime) :
                           Cardinality(T) >= 1 /\ Cardinality(T) <= MaxRows}}

MaxFramesArgs == {None} \cup {Some(n) : n \in 0..MaxMaxFrames}

\* The locals of create_flight_video and what surrounds a run, before it.
InitLocals ==
  /\ df_clipped = <<>>
  /\ total_possible_frames = 0
  /\ all_frame_timestamps = <<>>
  /\ original_indices = <<>>
  /\ tasks = <<>>
  /\ frame_results = <<>>
  /\ successful_frame_files = <<>>
  /\ future = <<>>
  /\ df_window = <<>>
  /\ fate = <<>>
  /\ temp_dir = "none"
  /\ files = {}
  /\ video = None
  /\ report = "none"
  /\ error = "none"
  /\ encoder = "none"
  /\ log = {}

\* create_flight_video is called with a table and arguments from the given
\* sets (the loader is not part of the run).
InitWith(tables, windows, startFrames, maxFrames, clipStarts, clipEnds, cleaning, cores) ==
  /\ cpu_count \in cores
  /\ num_workers = None
  /\ df_merged \in tables
  /\ fps \in FpsValues
  /\ window_duration_secs \in windows
  /\ start_frame \in startFrames
  /\ max_frames \in maxFrames
  /\ start_time_str \in clipStarts
  /\ end_time_str \in clipEnds
  /\ disable_cleaning \in cleaning
  /\ pc = "start"
  /\ InitLocals
  /\ main = "video"
  /\ csv_filepaths = [m \in MsgTypes |-> NoPath]
  /\ dataframes = NoDataFrames
  /\ loaded_optional_types = <<>>
  /\ home = None
  /\ aligned = NoTable
  /\ filtered = NoTable
  /\ exit_code = None


\* ---------------------------------------------------------------- actions
Pending == [state |-> "pending", raised |-> FALSE, result |-> None]
Returned(i, filename) ==
  [state |-> "done", raised |-> FALSE,
   result |-> Some([idx |-> i, filename |-> filename])]
Raised == [state |-> "done", raised |-> TRUE, result |-> None]

\* Variant of Cleanup: the scratch directory is removed in every case.
CleanupAlways ==
  /\ temp_dir' = "removed"
  /\ files' = {}

\* The finally block: the scratch directory is removed unless disable_cleaning.
Cleanup ==
  /\ temp_dir' = IF disable_cleaning THEN temp_dir ELSE "removed"
  /\ files' = IF disable_cleaning THEN files ELSE {}

\* The CPU counts a machine can report.
CpuCounts == {None} \cup {Some(n) : n \in 1..MaxCores}

\* Variant of NumWorkers: one core is always left free.
NumWorkersLeaveOneFree(cpu_cores) ==
  IF IsNone(cpu_cores) THEN 1 ELSE Val(cpu_cores) - 1

\* num_workers = max(1, cpu_cores - 1 if cpu_cores else 1).
NumWorkers(cpu_cores) ==
  LET less_one == IF ~IsNone(cpu_cores) /\ Val(cpu_cores) # 0
                  THEN Val(cpu_cores) - 1 ELSE 1
  IN  IF less_one > 1 THEN less_one ELSE 1

\* create_flight_video from its entry to the submission of the tasks: time
\* clipping, frame planning, the scratch directory, one future per task.
Plan ==
  /\ pc = "start"
  /\ LET plan == PlanFrames(df_merged, start_time_str, end_time_str, fps,
                            start_frame, max_frames)
     IN  /\ df_clipped' = plan.df_clipped
         /\ total_possible_frames' = plan.total_possible_frames
         /\ all_frame_timestamps' = plan.all_frame_timestamps
         /\ original_indices' = plan.original_indices
         /\ IF plan.error # "none"
            THEN /\ pc' = "returned"
                 /\ report' = "error"
                 /\ error' = plan.error
                 /\ UNCHANGED <<tasks, future, df_window, fate, temp_dir,
                                num_workers>>
            ELSE /\ pc' = "rendering"
                 /\ temp_dir' = "exists"
                 /\ num_workers' = Some(NumWorkers(cpu_count))
                 /\ tasks' = TaskList(plan.original_indices,
                                      plan.all_frame_timestamps)
                 /\ future' = [k \in 1..Len(plan.original_indices) |-> Pending]
                 /\ df_window' = [k \in 1..Len(plan.original_indices) |-> None]
                 /\ fate' = [k \in 1..Len(plan.original_indices) |-> "pending"]
                 /\ UNCHANGED <<report, error>>
  /\ UNCHANGED <<cpu_count, args, frame_results, successful_frame_files,
                 files, video, encoder, log, main, loader, exit_code>>

\* Variant of GenerateSingleFrame: the worker cuts the shared table down to
\* its window instead of selecting from it.
GenerateSingleFrameInPlace(k) ==
  /\ pc = "rendering"
  /\ k \in 1..Len(tasks)
  /\ future[k].state = "pending"
  /\ LET i == tasks[k].original_index
         w == DataWindow(df_clipped, tasks[k].current_time, window_duration_secs)
     IN  IF IsNone(w)
         THEN /\ future' = [future EXCEPT ![k] = Returned(i, None)]
              /\ fate' = [fate EXCEPT ![k] = "no_data"]
              /\ UNCHANGED <<df_window, files, df_clipped>>
         ELSE /\ df_window' = [df_window EXCEPT ![k] = w]
              /\ df_clipped' = Val(w)
              /\ files' = WriteFile(files, FrameFilename(i), 1, TRUE)
              /\ future' = [future EXCEPT ![k] = Returned(i, Some(FrameFilename(i)))]
              /\ fate' = [fate EXCEPT ![k] = "rendered"]
  /\ UNCHANGED <<workers, args, pc, total_possible_frames, all_frame_timestamps,
                 original_indices, tasks, frame_results, successful_frame_files,
                 temp_dir, video, report, error, encoder, log, main, loader,
                 exit_code>>

\* A worker runs generate_single_frame for task k and nothing fails: the
\* frame is rendered from its data window and saved, or skipped (None) when
\* there is no data for it.
GenerateSingleFrame(k) ==
  /\ pc = "rendering"
  /\ k \in 1..Len(tasks)
  /\ future[k].state = "pending"
  /\ LET i == tasks[k].original_index
         w == DataWindow(df_clipped, tasks[k].current_time, window_duration_secs)
     IN  IF IsNone(w)
         THEN /\ future' = [future EXCEPT ![k] = Returned(i, None)]
              /\ fate' = [fate EXCEPT ![k] = "no_data"]
              /\ UNCHANGED <<df_window, files>>
         ELSE /\ df_window' = [df_window EXCEPT ![k] = w]
              /\ files' = WriteFile(files, FrameFilename(i), 1, TRUE)
              /\ future' = [future EXCEPT ![k] = Returned(i, Some(FrameFilename(i)))]
              /\ fate' = [fate EXCEPT ![k] = "rendered"]
  /\ UNCHANGED <<workers, args, pc, locals, temp_dir, video, report, error, encoder,
                 log, main, loader, exit_code>>

\* What can go wrong with one frame: create_frame_figure raises, write_image
\* raises, the image file is written with no bytes, the image file is written
\* but cannot be decoded, the image file is gone before validation, the
\* future itself raises (the worker process died).
Faults == {"render_raises", "save_raises", "empty_file", "unreadable_file",
           "file_removed", "future_raises"}

\* What generate_single_frame prints for frame i when the fault happens: the
\* two except clauses print, nothing else does.
WorkerMessages(i, fault) ==
  IF fault = "render_raises" THEN {Msg("error_generating_figure", "", i)}
  ELSE IF fault = "save_raises" THEN {Msg("error_saving_frame", "", i)}
  ELSE {}

\* A worker runs generate_single_frame for task k and the fault happens.
GenerateSingleFrameFault(k, fault) ==
  /\ pc = "rendering"
  /\ k \in 1..Len(tasks)
  /\ future[k].state = "pending"
  /\ LET i == tasks[k].original_index
         w == DataWindow(df_clipped, tasks[k].current_time, window_duration_secs)
     IN  IF fault = "future_raises"
         THEN /\ future' = [future EXCEPT ![k] = Raised]
              /\ UNCHANGED <<df_window, files>>
         ELSE /\ ~IsNone(w)
              /\ df_window' = [df_window EXCEPT ![k] = w]
              /\ files' = IF fault = "empty_file"
                          THEN WriteFile(files, FrameFilename(i), 0, FALSE)
                          ELSE IF fault = "unreadable_file"
                          THEN WriteFile(files, FrameFilename(i), 1, FALSE)
                          ELSE files
              /\ future' = [future EXCEPT ![k] =
                   IF fault \in {"render_raises", "save_raises"}
                   THEN Returned(i, None)
                   ELSE Returned(i, Some(FrameFilename(i)))]
  /\ fate' = [fate EXCEPT ![k] = fault]
  /\ log' = log \cup WorkerMessages(tasks[k].original_index, fault)
  /\ UNCHANGED <<workers, args, pc, locals, temp_dir, video, report, error, encoder,
                 main, loader, exit_code>>

\* The pool itself fails: ProcessPoolExecutor(...) or executor.submit raises
\* before the as_completed loop has yielded a future.  The exception leaves
\* create_flight_video through the finally block.
PoolRaises ==
  /\ pc = "rendering"
  /\ \A k \in 1..Len(tasks) : future[k].state # "collected"
  /\ pc' = "returned"
  /\ report' = "error"
  /\ error' = "exception"
  /\ Cleanup
  /\ UNCHANGED <<workers, args, locals, future, df_window, fate, video, encoder, log,
                 main, loader, exit_code>>

\* Variant of StoreResult: nothing is stored for a future that raised.
StoreResultUnlessRaised(results, task_index, fut) ==
  IF fut.raised THEN results
  ELSE DictSet(results, task_index, Val(fut.result).filename)

\* frame_results after one iteration of the as_completed loop for a future of
\* the task with index task_index.
StoreResult(results, task_index, fut) ==
  IF fut.raised THEN DictSet(results, task_index, None)
  ELSE IF Val(fut.result).idx = task_index
       THEN DictSet(results, Val(fut.result).idx, Val(fut.result).filename)
       ELSE DictSet(results, task_index, Val(fut.result).filename)

\* Variant of Collect: the loop takes a completed future only when its task
\* returned.
CollectReturned(k) ==
  /\ pc = "rendering"
  /\ k \in 1..Len(tasks)
  /\ future[k].state = "done"
  /\ ~future[k].raised
  /\ frame_results' = StoreResult(frame_results, tasks[k].original_index, future[k])
  /\ future' = [future EXCEPT ![k].state = "collected"]
  /\ UNCHANGED <<workers, args, pc, df_clipped, total_possible_frames,
                 all_frame_timestamps, original_indices, tasks,
                 successful_frame_files, df_window, fate, temp_dir, files,
                 video, report, error, encoder, log, main, loader, exit_code>>

\* One iteration of the as_completed loop: a completed future is taken, its
\* result (or None when it raised) is stored under the task's index.
Collect(k) ==
  /\ pc = "rendering"
  /\ k \in 1..Len(tasks)
  /\ future[k].state = "done"
  /\ frame_results' = StoreResult(frame_results, tasks[k].original_index, future[k])
  /\ future' = [future EXCEPT ![k].state = "collected"]
  /\ log' = log \cup (IF future[k].raised
                       THEN {Msg("task_exception", "", tasks[k].original_index)}
                       ELSE {})
  /\ UNCHANGED <<workers, args, pc, df_clipped, total_possible_frames,
                 all_frame_timestamps, original_indices, tasks,
                 successful_frame_files, df_window, fate, temp_dir, files,
                 video, report, error, encoder, main, loader, exit_code>>

\* Every future has been consumed and the pool has shut down.
AllCollected == \A k \in 1..Len(tasks) : future[k].state = "collected"

\* What the validation loop prints: a warning for each index whose task
\* returned a filename that is no file, or a file with no bytes.  An index
\* whose task returned None is passed over without a message.
ValidationMessages(indices, results, dir) ==
  {Msg("frame_not_found", "", i) :
     i \in {j \in Range(indices) :
              /\ ~IsNone(DictGet(results, j))
              /\ ~FileExists(dir, Val(DictGet(results, j)))}}
    \cup
  {Msg("frame_empty", "", i) :
     i \in {j \in Range(indices) :
              /\ ~IsNone(DictGet(results, j))
              /\ FileExists(dir, Val(DictGet(results, j)))
              /\ FileSize(dir, Val(DictGet(results, j))) = 0}}

\* The validation loop and the check that follows it: with no valid frame the
\* run reports the error and returns through the finally block.
Validate ==
  /\ pc = "rendering"
  /\ AllCollected
  /\ LET valid == SuccessfulFrameFiles(original_indices, frame_results, files)
     IN  /\ successful_frame_files' = valid
         /\ log' = log \cup ValidationMessages(original_indices, frame_results, files)
                       \cup {Msg("compiling_valid_frames", "", Len(valid))}
                       \cup (IF valid = <<>>
                             THEN {Msg("no_valid_frames", "", 0)} ELSE {})
         /\ IF valid = <<>>
            THEN /\ pc' = "returned"
                 /\ report' = "error"
                 /\ error' = "no_valid_frames"
                 /\ Cleanup
            ELSE /\ pc' = "encoding"
                 /\ UNCHANGED <<report, error, temp_dir, files>>
  /\ UNCHANGED <<workers, args, df_clipped, total_possible_frames, all_frame_timestamps,
                 original_indices, tasks, frame_results, future, df_window,
                 fate, video, encoder, main, loader, exit_code>>

\* The frames the writer appends: those of the list, in its order, whose file
\* can be read.
AppendedFrames(filenames, dir) ==
  SelectSeq(filenames, LAMBDA f : IsReadable(dir, f))

\* How the writer can behave: it works, iio.get_writer raises, or
\* writer.append_data raises for every frame.
EncoderOutcomes == {"ok", "open_raises", "append_raises"}

\* What the run reports after the with block of the writer:
\* "Video saved successfully", whatever was appended.
EncodeReport(appended) == "saved"

\* The writer is opened and the frames are streamed to it in the order of
\* successful_frame_files; a frame whose read or append raises is skipped with
\* a warning, success is printed after the loop, and the finally block runs.
\* When get_writer raises, the exception leaves create_flight_video through
\* the finally block and nothing is appended or reported as saved.
Encode(outcome) ==
  /\ pc = "encoding"
  /\ encoder' = outcome
  /\ LET appended ==
           IF outcome = "ok" THEN AppendedFrames(successful_frame_files, files)
           ELSE <<>>
         skipped == {f \in Range(successful_frame_files) : f \notin Range(appended)}
     IN  IF outcome = "open_raises"
         THEN /\ video' = None
              /\ report' = "error"
              /\ error' = "exception"
              /\ UNCHANGED log
         ELSE /\ video' = Some(appended)
              /\ report' = EncodeReport(appended)
              /\ log' = log \cup {Msg("error_processing_frame", "", FrameIndexOf(f)) :
                                    f \in skipped}
                            \cup (IF EncodeReport(appended) = "saved"
                                  THEN {Msg("video_saved", "", 0)} ELSE {})
              /\ UNCHANGED error
  /\ pc' = "returned"
  /\ Cleanup
  /\ UNCHANGED <<workers, args, locals, future, df_window, fate, main, loader, exit_code>>

\* ------------------------------------------------- loader and main block
run == <<pc, locals, future, df_window, fate, temp_dir, files, video, report,
         error, encoder>>

\* load_and_merge_data, the loop over the required types: a type with no path
\* or with a table that cannot be loaded ends the function with (None, []),
\* a missing file or a missing required column ends the process.
LoadRequired ==
  /\ main = "load_required"
  /\ LET r == LoadRequiredData(csv_filepaths, 1, NoDataFrames, {})
     IN  /\ dataframes' = r.dataframes
         /\ log' = log \cup r.log
         /\ main' = IF r.outcome = "ok" THEN "load_optional"
                    ELSE IF r.outcome = "exit" THEN "exited"
                    ELSE "returned_none"
         /\ exit_code' = IF r.outcome = "exit" THEN Some(1) ELSE exit_code
  /\ UNCHANGED <<workers, args, run, csv_filepaths, loaded_optional_types, home,
                 aligned, filtered>>

\* load_and_merge_data, the loop over the optional types.
LoadOptional ==
  /\ main = "load_optional"
  /\ LET r == LoadOptionalData(csv_filepaths, 1, dataframes, <<>>, {})
     IN  /\ dataframes' = r.dataframes
         /\ loaded_optional_types' = r.loaded_optional_types
         /\ log' = log \cup r.log
  /\ main' = "distance"
  /\ UNCHANGED <<workers, args, run, csv_filepaths, home, aligned, filtered, exit_code>>

\* load_and_merge_data, the distance from home: with a POS table that has
\* both coordinate columns, the home point is its first row with both
\* coordinates, and the table gets the column Distance_From_Home.
CalculateDistanceFromHome ==
  /\ main = "distance"
  /\ IF /\ ~IsNone(dataframes["POS"])
        /\ {"POS_Lat", "POS_Lng"} \subseteq Val(dataframes["POS"]).columns
     THEN LET pos_df == Val(dataframes["POS"])
              first_valid_pos == FirstValidPos(pos_df)
          IN  IF ~IsNone(first_valid_pos)
              THEN /\ home' = Some([lat |-> Val(first_valid_pos)["POS_Lat"],
                                    lng |-> Val(first_valid_pos)["POS_Lng"]])
                   /\ dataframes' = [dataframes EXCEPT !["POS"] =
                        Some(WithDistanceFromHome(pos_df, Val(first_valid_pos)))]
                   /\ log' = log \cup {Msg("home_position_set", "POS", 0)}
              ELSE /\ log' = log \cup {Msg("no_valid_lat_lng", "POS", 0)}
                   /\ UNCHANGED <<home, dataframes>>
     ELSE /\ log' = log \cup (IF "POS" \in Range(loaded_optional_types)
                              THEN {Msg("lat_lng_columns_missing", "POS", 0)}
                              ELSE {})
          /\ UNCHANGED <<home, dataframes>>
  /\ main' = "merge"
  /\ UNCHANGED <<workers, args, run, csv_filepaths, loaded_optional_types, aligned,
                 filtered, exit_code>>

\* load_and_merge_data, the merges: ATT, then IMU, then each loaded optional
\* type in the order of loaded_optional_types.  (ATT and IMU are in
\* dataframes whenever this point is reached.)
MergeDataFrames ==
  /\ main = "merge"
  /\ aligned' = MergeOptional(
                  merge_asof(Val(dataframes["ATT"]), Val(dataframes["IMU"]),
                             tolerance),
                  dataframes, loaded_optional_types, 1)
  /\ main' = "final"
  /\ UNCHANGED <<workers, args, run, log, csv_filepaths, dataframes,
                 loaded_optional_types, home, filtered, exit_code>>

\* Variant of SignificantLoss: the warning is given from half of the rows on.
SignificantLossHalf(pre_drop_len, post_drop_len, original_len) ==
  pre_drop_len > 0 /\ 2 * post_drop_len < pre_drop_len

\* pre_drop_len > 0 and post_drop_len < pre_drop_len * 0.8.
SignificantLoss(pre_drop_len, post_drop_len, original_len) ==
  pre_drop_len > 0 /\ 5 * post_drop_len < 4 * pre_drop_len

\* load_and_merge_data, the final processing: the rows with a null in an
\* essential column are dropped, a warning is printed when more than 20% of
\* the rows went, and the table is returned with its index sorted, or None
\* when no row is left.
FinalProcessing ==
  /\ main = "final"
  /\ LET essential_dropna_subset ==
           EssentialDropnaSubset(loaded_optional_types, aligned.columns)
         original_len == Len(Val(dataframes["ATT"]).rows)
         pre_drop_len == Len(aligned.rows)
         dropped == DropNa(aligned.rows, essential_dropna_subset)
         post_drop_len == Len(dropped)
         warned ==
           IF SignificantLoss(pre_drop_len, post_drop_len, original_len)
           THEN {Msg("significant_data_loss", "", pre_drop_len - post_drop_len)}
           ELSE IF 5 * post_drop_len < 4 * original_len
           THEN {Msg("significant_data_loss_vs_att", "", 0)}
           ELSE {}
     IN  IF dropped = <<>>
         THEN /\ filtered' = Table(aligned.columns, dropped)
              /\ log' = log \cup warned \cup {Msg("no_valid_merged_data", "", 0)}
              /\ main' = "returned_none"
         ELSE /\ filtered' = Table(aligned.columns, SortIndex(dropped))
              /\ log' = log \cup warned
              /\ main' = "returned"
  /\ UNCHANGED <<workers, args, run, csv_filepaths, dataframes, loaded_optional_types,
                 home, aligned, exit_code>>

\* The main block after load_and_merge_data: without a table the process
\* exits with 1, otherwise create_flight_video is called with the table.
CallCreateFlightVideo ==
  /\ main \in {"returned", "returned_none"}
  /\ IF main = "returned_none" \/ filtered.rows = <<>>
     THEN /\ log' = log \cup {Msg("failed_to_load_or_merge", "", 0)}
          /\ main' = "exited"
          /\ exit_code' = Some(1)
          /\ UNCHANGED <<df_merged, pc>>
     ELSE /\ df_merged' = Index(filtered.rows)
          /\ pc' = "start"
          /\ main' = "video"
          /\ UNCHANGED <<log, exit_code>>
  /\ UNCHANGED <<workers, fps, window_duration_secs, start_frame, max_frames,
                 start_time_str, end_time_str, disable_cleaning, locals,
                 future, df_window, fate, temp_dir, files, video, report,
                 error, encoder, loader>>

\* The main block after create_flight_video: an exception ends the process
\* with 1; a return, with or without a video, ends it with 0.
Exit ==
  /\ main = "video"
  /\ pc = "returned"
  /\ IF error = "exception"
     THEN /\ log' = log \cup {Msg("unexpected_error", "", 0)}
          /\ exit_code' = Some(1)
     ELSE /\ log' = log \cup {Msg("process_finished", "", 0)}
          /\ exit_code' = Some(0)
  /\ main' = "exited"
  /\ UNCHANGED <<workers, args, run, loader>>

\* ----------------------------------------------------------- input files
\* The rows of a CSV file: row k has the k-th timestamp (None: a text that is
\* no timestamp) and, in each data column, the value k, or null for the
\* cells in nulls, or inf for the cells in infs.
Rows(stamps, cols, nulls, infs) ==
  [k \in 1..Len(stamps) |->
     [c \in cols \cup {"timestamp"} |->
        IF c = "timestamp" THEN stamps[k]
        ELSE IF <<k, c>> \in nulls THEN None
        ELSE IF <<k, c>> \in infs THEN Some(Infinity)
        ELSE Some(k)]]

\* A CSV file with the given columns (with or without a timestamp column).
CsvWith(cols, stamps, nulls, infs) ==
  CsvFile(cols, [k \in 1..Len(stamps) |->
                   [c \in cols |-> Rows(stamps, cols, nulls, infs)[k][c]]])
Csv(cols, stamps, nulls) == CsvWith(cols, stamps, nulls, {})

RECURSIVE SeqsOver(_, _)
\* The sequences of length n over S.
SeqsOver(S, n) ==
  IF n = 0 THEN {<<>>}
  ELSE {Append(q, x) : q \in SeqsOver(S, n - 1), x \in S}

Times == {Some(t) : t \in 0..MaxLoadTime}
NonDecreasing(q) == \A k \in 1..(Len(q) - 1) : Val(q[k]) <= Val(q[k + 1])
NonIncreasing(q) == \A k \in 1..(Len(q) - 1) : Val(q[k]) >= Val(q[k + 1])

\* One row at every tick: the timestamps of the files that are not varied.
BaseStamps == [k \in 1..(MaxLoadTime + 1) |-> Some(k - 1)]
\* Timestamps of a file in ascending order, repeated timestamps included.
AscendingStamps(lo, hi) ==
  UNION {{q \in SeqsOver(Times, n) : NonDecreasing(q)} : n \in lo..hi}
\* Timestamps of a file in descending order, repeated timestamps included.
DescendingStamps(lo, hi) ==
  UNION {{q \in SeqsOver(Times, n) : NonIncreasing(q)} : n \in lo..hi}
\* Timestamps of a short file in any order, unparsable ones included.
ShortStamps == UNION {SeqsOver(Times \cup {None}, n) : n \in 0..MIN_ROWS_THRESHOLD}

AttFile(stamps, nulls) == Csv({"timestamp", "Roll"}, stamps, nulls)
ImuFile(stamps, nulls) == Csv({"timestamp", "GyrX"}, stamps, nulls)

\* Files of a required type that are broken in some way, or short.
BrokenFiles(col) ==
  {NoPath, NotFound}
    \cup {Csv(cols, stamps, {}) :
            cols \in SUBSET {"timestamp", col}, stamps \in ShortStamps}

\* The first n ticks: the timestamps of an optional file whose cells are varied.
FirstStamps(n) == [k \in 1..n |-> Some(k - 1)]

\* Files of an optional type with the columns c1 and c2: any subset of the
\* two columns; up to MaxOptRows rows at any instants with every cell filled,
\* or rows at the first ticks with any cells null and at most one cell of the
\* columns infcols infinite; short files with unparsable timestamps.
OptionalFiles(c1, c2, infcols) ==
  {NotFound}
    \cup {Csv(cols \cup {"timestamp"}, stamps, {}) :
            cols \in SUBSET {c1, c2},
            stamps \in AscendingStamps(0, MaxOptRows)}
    \cup UNION {{CsvWith(cols \cup {"timestamp"}, FirstStamps(n), nulls, infs) :
                   cols \in SUBSET {c1, c2},
                   nulls \in SUBSET ((1..n) \X {c1, c2}),
                   infs \in {{}} \cup {{cell} : cell \in (1..n) \X infcols}} :
                 n \in 0..MaxOptRows}
    \cup {Csv(cols, stamps, {}) :
            cols \in {{c1, c2}, {}}, stamps \in ShortStamps}

Paths(att, imu, rcin, pos) ==
  [ATT |-> att, IMU |-> imu, RCIN |-> rcin, POS |-> pos]

\* The command lines of the loader runs:
\* the two required files with rows at any instants (an ATT file of up to
\* MaxFileRows rows, an IMU file of up to MIN_ROWS_THRESHOLD + 1 rows);
\* the required files with null cells;
\* a required file that is broken or short;
\* an RCIN file or a POS file next to sound required files.
AlignmentPaths ==
  {Paths(AttFile(a, {}), ImuFile(b, {}), NoPath, NoPath) :
     a \in AscendingStamps(MIN_ROWS_THRESHOLD, MaxFileRows),
     b \in DescendingStamps(MIN_ROWS_THRESHOLD, MIN_ROWS_THRESHOLD + 1)}
NullCellPaths ==
  {Paths(AttFile(BaseStamps, (rows \X {"Roll"})), ImuFile(BaseStamps, {}),
         NoPath, NoPath) : rows \in SUBSET (1..Len(BaseStamps))}
    \cup
  {Paths(AttFile(BaseStamps, {}), ImuFile(BaseStamps, (rows \X {"GyrX"})),
         NoPath, NoPath) : rows \in SUBSET (1..Len(BaseStamps))}
BrokenPaths ==
  {Paths(att, ImuFile(BaseStamps, {}), NoPath, NoPath) : att \in BrokenFiles("Roll")}
    \cup
  {Paths(AttFile(BaseStamps, {}), imu, NoPath, NoPath) : imu \in BrokenFiles("GyrX")}
OptionalPaths ==
  {Paths(AttFile(BaseStamps, {}), ImuFile(BaseStamps, {}), rcin, NoPath) :
     rcin \in OptionalFiles("C1", "C2", {})}
    \cup
  {Paths(AttFile(BaseStamps, {}), ImuFile(BaseStamps, {}), NoPath, pos) :
     pos \in OptionalFiles("Lat", "Lng", {"Lat", "Lng"})}

\* An ATT file one row above the minimum, its rows in any order and with
\* timestamps that may not be resolved, next to a sound IMU file.
UnresolvedStampPaths ==
  {Paths(AttFile(a, {}), ImuFile(BaseStamps, {}), NoPath, NoPath) :
     a \in SeqsOver(Times \cup {None}, MIN_ROWS_THRESHOLD + 1)}

\* A file whose timestamp column holds integers, the microseconds since the
\* epoch of the instants of the given file.
InMicroseconds(file) ==
  [file EXCEPT !.kind = "csv_int",
               !.rows = WithTimestamps(file.rows, UsPerTick, 1)]

\* The two required files with integer timestamps, the ATT rows at any
\* instants in ascending order.
IntegerStampPaths ==
  {Paths(InMicroseconds(AttFile(a, {})), InMicroseconds(ImuFile(BaseStamps, {})),
         NoPath, NoPath) :
     a \in AscendingStamps(MIN_ROWS_THRESHOLD, MIN_ROWS_THRESHOLD)}

\* The two required files with one row per tick, an RCIN file and a POS file,
\* each with MIN_ROWS_THRESHOLD rows at any instants.
BothOptionalPaths ==
  {Paths(AttFile(BaseStamps, {}), ImuFile(BaseStamps, {}),
         Csv({"timestamp", "C1", "C2"}, a, {}),
         Csv({"timestamp", "Lat", "Lng"}, b, {})) :
     a \in AscendingStamps(MIN_ROWS_THRESHOLD, MIN_ROWS_THRESHOLD),
     b \in AscendingStamps(MIN_ROWS_THRESHOLD, MIN_ROWS_THRESHOLD)}

\* The program is started: nothing is loaded, create_flight_video is not
\* called yet; its other arguments come from the command line.
InitMain(paths, rates, cleaning) ==
  /\ cpu_count = Some(MaxCores)
  /\ num_workers = None
  /\ csv_filepaths \in paths
  /\ main = "load_required"
  /\ dataframes = NoDataFrames
  /\ loaded_optional_types = <<>>
  /\ home = None
  /\ aligned = NoTable
  /\ filtered = NoTable
  /\ exit_code = None
  /\ df_merged = <<>>
  /\ fps \in rates
  /\ window_duration_secs = MaxWindow
  /\ start_frame = 0
  /\ max_frames = None
  /\ start_time_str = [kind |-> "none", t |-> 0]
  /\ end_time_str = [kind |-> "none", t |-> 0]
  /\ disable_cleaning \in cleaning
  /\ pc = "not_called"
  /\ InitLocals

\* ---------------------------------------------------------- specifications
\* The run with frames that may fail, on a few tables.
FaultTables == {<<0, 6>>, <<1, 4, 7>>}

Init ==
  InitWith(FaultTables, {MaxWindow}, {0, 1}, {None, Some(MaxMaxFrames)},
           {[kind |-> "none", t |-> 0]}, {[kind |-> "none", t |-> 0]}, BOOLEAN,
           CpuCounts)

Next ==
  \/ Plan
  \/ \E k \in 1..Len(tasks) : GenerateSingleFrame(k)
  \/ \E k \in 1..Len(tasks) : \E fault \in Faults : GenerateSingleFrameFault(k, fault)
  \/ PoolRaises
  \/ \E k \in 1..Len(tasks) : Collect(k)
  \/ Validate
  \/ \E outcome \in EncoderOutcomes : Encode(outcome)

Spec == Init /\ [][Next]_vars

\* The run of Spec on a machine with MaxCores cores, from the first frame and
\* without a frame limit, where every step that can be taken is taken in the
\* end: each submitted task finishes (it returns or raises), the as_completed
\* loop takes every completed future, and the main thread goes on with the
\* validation and the video writer.
InitLive ==
  InitWith(FaultTables, {MaxWindow}, {0}, {None},
           {[kind |-> "none", t |-> 0]}, {[kind |-> "none", t |-> 0]}, BOOLEAN,
           {Some(MaxCores)})

TaskFinishes ==
  \E k \in 1..Len(tasks) :
    \/ GenerateSingleFrame(k)
    \/ \E fault \in Faults : GenerateSingleFrameFault(k, fault)

Fairness ==
  /\ WF_vars(Plan)
  /\ WF_vars(TaskFinishes)
  /\ WF_vars(\E k \in 1..Len(tasks) : Collect(k))
  /\ WF_vars(Validate)
  /\ WF_vars(\E outcome \in EncoderOutcomes : Encode(outcome))

SpecLive == InitLive /\ [][Next]_vars /\ Fairness

\* The run with every argument varied, in an environment where no frame
\* fails and every frame file is readable.
InitPlan ==
  InitWith(Tables, 1..MaxWindow, 0..MaxStartFrame, MaxFramesArgs,
           ClipArgs, ClipArgs, {FALSE}, {Some(MaxCores)})

NextPlan ==
  \/ Plan
  \/ \E k \in 1..Len(tasks) : GenerateSingleFrame(k)
  \/ \E k \in 1..Len(tasks) : Collect(k)
  \/ Validate
  \/ Encode("ok")

SpecPlan == InitPlan /\ [][NextPlan]_vars

\* load_and_merge_data on every command line above, up to the point where
\* the main block exits or calls create_flight_video.
InitLoad ==
  InitMain(AlignmentPaths \cup NullCellPaths \cup BrokenPaths \cup OptionalPaths
             \cup BothOptionalPaths \cup UnresolvedStampPaths
             \cup IntegerStampPaths,
           {SetMax(FpsValues)}, {FALSE})

NextLoad ==
  \/ LoadRequired
  \/ LoadOptional
  \/ CalculateDistanceFromHome
  \/ MergeDataFrames
  \/ FinalProcessing
  \/ CallCreateFlightVideo

SpecLoad == InitLoad /\ [][NextLoad]_vars

\* The whole program, from the command line to the exit code, with frames
\* and a video writer that may fail, on required files that are broken,
\* short, or have null cells.
InitProgram == InitMain(NullCellPaths \cup BrokenPaths, FpsValues, BOOLEAN)

NextProgram ==
  \/ NextLoad
  \/ Next
  \/ Exit

SpecProgram == InitProgram /\ [][NextProgram]_vars

\* ------------------------------------------------------------ properties
FrameIndexes(filenames) ==
  [k \in 1..Len(filenames) |-> FrameIndexOf(filenames[k])]
StrictlyAscending(s) == \A a, b \in 1..Len(s) : a < b => s[a] < s[b]

\* The futures were not consumed in the order of their frame indices.
CompletedOutOfOrder ==
  \E a, b \in 1..Len(frame_results) :
    a < b /\ frame_results[a].key > frame_results[b].key

\* C1: whatever the order in which the futures complete, the frame files
\* handed to the video writer are in strictly increasing original frame index.
C1_FrameOrderByIndex ==
  /\ StrictlyAscending(FrameIndexes(successful_frame_files))
  /\ ~IsNone(video) => StrictlyAscending(FrameIndexes(Val(video)))

C1_Witness ==
  /\ pc = "returned"
  /\ report = "saved"
  /\ CompletedOutOfOrder
  /\ Len(Val(video)) >= 2

\* Tasks by what happened to their frame: it failed (create_frame_figure
\* raised, write_image raised, the future raised) or it was rendered into a
\* valid readable file.
FailedFates == {"render_raises", "save_raises", "future_raises"}
FailedTasks == {k \in 1..Len(tasks) : fate[k] \in FailedFates}
RenderedTasks == {k \in 1..Len(tasks) : fate[k] = "rendered"}
\* The files of the rendered tasks, in task order (increasing frame index).
RenderedFiles ==
  LET kept == SelectSeq([k \in 1..Len(tasks) |-> k], LAMBDA k : fate[k] = "rendered")
  IN  [j \in 1..Len(kept) |-> FrameFilename(tasks[kept[j]].original_index)]
\* The run is over, each task either failed or left a valid readable file,
\* and neither the pool nor the video writer itself failed.
RunOverFailedOrRendered ==
  /\ pc = "returned"
  /\ tasks # <<>>
  /\ FailedTasks \cup RenderedTasks = 1..Len(tasks)
  /\ encoder \in {"none", "ok"}
  /\ error # "exception"
\* Every future was consumed, the video holds exactly the rendered frames in
\* index order, and success is reported.
OthersEncodedAndSuccess ==
  /\ AllCollected
  /\ video = Some(RenderedFiles)
  /\ report = "saved"

RowsAfterWindowStart(k) ==
  {t \in Range(df_clipped) :
     tasks[k].current_time - window_duration_secs < t /\ t <= tasks[k].current_time}
RowsFromWindowStart(k) ==
  {t \in Range(df_clipped) :
     tasks[k].current_time - window_duration_secs <= t /\ t <= tasks[k].current_time}

InRequestedRange(t) ==
  /\ t \in Range(df_merged)
  /\ start_time_str.kind = "time" => t >= start_time_str.t
  /\ end_time_str.kind = "time" => t <= end_time_str.t

\* C4: every row handed to create_frame_figure for a frame, fallback
\* included, is a row of the clipped table, inside the requested range, with
\* a timestamp not after the frame's instant.
C4_NoFutureData ==
  \A k \in 1..Len(tasks) :
    ~IsNone(df_window[k]) =>
      \A t \in Range(Val(df_window[k])) :
        /\ t \in Range(df_clipped)
        /\ InRequestedRange(t)
        /\ t <= tasks[k].current_time

C4_Witness ==
  \E k \in 1..Len(tasks) :
    /\ ~IsNone(df_window[k])
    /\ \E t \in Range(df_clipped) : t > tasks[k].current_time
    /\ \E t \in Range(df_merged) : ~InRequestedRange(t)

\* C5: a frame whose look-back interval holds no row is rendered from exactly
\* the earliest row of the clipped table, and is never skipped for lack of data.
C5_EmptyWindowFallsBack ==
  \A k \in 1..Len(tasks) :
    (future[k].state # "pending" /\ RowsFromWindowStart(k) = {})
      => /\ df_window[k] = Some(<<df_clipped[1]>>)
         /\ fate[k] # "no_data"

\* Duration of the clipped table in ticks, and the number of computed instants.
ClippedDuration == SetMax(Range(df_clipped)) - SetMin(Range(df_clipped))
ComputedFrames == Len(all_frame_timestamps)
Planned == pc # "start" /\ df_clipped # <<>>

C7_InstantsExact ==
  (Planned /\ ComputedFrames >= 1) =>
    /\ all_frame_timestamps[1] = SetMin(Range(df_clipped))
    /\ ComputedFrames >= 2 =>
         /\ StrictlyAscending(all_frame_timestamps)
         /\ all_frame_timestamps[ComputedFrames] = SetMax(Range(df_clipped))
         /\ \A i \in 1..(ComputedFrames - 1) :
              (all_frame_timestamps[i + 1] - all_frame_timestamps[i])
                * (ComputedFrames - 1) = ClippedDuration

\* C7 amended: the instants are strictly increasing, the first and the last
\* are the earliest and the latest clipped timestamp rounded to float64 (at
\* most half a float spacing away), and every gap equals duration / (K - 1)
\* within the rounding of its two ends and of the range.
C7_InstantsWithinRounding ==
  (Planned /\ ComputedFrames >= 1) =>
    /\ 2 * Abs(all_frame_timestamps[1] - SetMin(Range(df_clipped))) <= Ulp
    /\ ComputedFrames >= 2 =>
         /\ StrictlyAscending(all_frame_timestamps)
         /\ 2 * Abs(all_frame_timestamps[ComputedFrames]
                      - SetMax(Range(df_clipped))) <= Ulp
         /\ \A i \in 1..(ComputedFrames - 1) :
              Abs((all_frame_timestamps[i + 1] - all_frame_timestamps[i])
                    * (ComputedFrames - 1) - ClippedDuration)
                <= Ulp * ComputedFrames

C7_Witness ==
  /\ Planned
  /\ ComputedFrames >= 3
  /\ all_frame_timestamps[1] # SetMin(Range(df_clipped))
  /\ \E i \in 1..(ComputedFrames - 1) :
       (all_frame_timestamps[i + 1] - all_frame_timestamps[i])
         * (ComputedFrames - 1) # ClippedDuration

\* The end of the index range [m, min(m + n, K)).
SliceEnd ==
  IF IsNone(max_frames) THEN total_possible_frames
  ELSE Min2(start_frame + Val(max_frames), total_possible_frames)

\* C8: start_frame = m and max_frames = n select exactly the frames with
\* original indices m .. min(m + n, K) - 1 of the K frames computed from the
\* clipped table, each with its original index and the instant of that index.
C8_SliceKeepsOriginalIndices ==
  (Planned /\ total_possible_frames > 0) =>
    /\ Len(original_indices) = Max2(SliceEnd - start_frame, 0)
    /\ \A k \in 1..Len(original_indices) : original_indices[k] = start_frame + k - 1
    /\ Len(tasks) = Len(original_indices)
    /\ \A k \in 1..Len(tasks) :
         /\ tasks[k].original_index = original_indices[k]
         /\ tasks[k].current_time = all_frame_timestamps[original_indices[k] + 1]

C8_Witness ==
  /\ Planned
  /\ start_frame > 0
  /\ ~IsNone(max_frames)
  /\ start_frame + Val(max_frames) < total_possible_frames
  /\ Len(tasks) >= 1
  /\ tasks[1].current_time # all_frame_timestamps[1]

\* The effective clip range and what it holds, from the arguments.
EffectiveClipStart ==
  IF start_time_str.kind = "time"
  THEN Max2(SetMin(Range(df_merged)), start_time_str.t)
  ELSE SetMin(Range(df_merged))
EffectiveClipEnd ==
  IF end_time_str.kind = "time"
  THEN Min2(SetMax(Range(df_merged)), end_time_str.t)
  ELSE SetMax(Range(df_merged))
RowsInClip ==
  {t \in Range(df_merged) : EffectiveClipStart <= t /\ t <= EffectiveClipEnd}
FramesInClip ==
  IF RowsInClip = {} THEN 0
  ELSE ((SetMax(RowsInClip) - SetMin(RowsInClip)) * fps) \div TicksPerSecond
NothingToRender ==
  \/ EffectiveClipStart >= EffectiveClipEnd
  \/ RowsInClip = {}
  \/ FramesInClip = 0
  \/ start_frame >= FramesInClip
  \/ max_frames = Some(0)

\* C9: when the effective clip start is not before the effective clip end, or
\* the clipped table is empty, or no frame is computed, or start_frame is
\* beyond the computed frames, or the slice selects no frame, the run reports
\* an error and returns with no scratch directory, no task and no video.
C9_ErrorBeforeRendering ==
  (pc # "start" /\ NothingToRender) =>
    /\ pc = "returned"
    /\ report = "error"
    /\ temp_dir = "none"
    /\ files = {}
    /\ tasks = <<>>
    /\ future = <<>>
    /\ video = None

C9_Witness ==
  /\ pc = "returned"
  /\ error = "no_data_in_range"
  /\ EffectiveClipStart < EffectiveClipEnd
  /\ RowsInClip = {}

\* Task k returned a filename and a file of that name with a size above zero
\* is in the scratch directory.
ReturnedValidFile(k) ==
  /\ ~future[k].raised
  /\ ~IsNone(Val(future[k].result).filename)
  /\ \E f \in files : f.name = Val(Val(future[k].result).filename) /\ f.size > 0

\* C10: sequencing keeps a planned frame if and only if its task returned a
\* filename and that file exists with a size above zero; when no frame is
\* kept the run fails and the video writer is never opened.
C10_KeptIffValidFile ==
  /\ pc = "encoding" =>
       /\ successful_frame_files # <<>>
       /\ \A k \in 1..Len(tasks) :
            FrameFilename(tasks[k].original_index) \in Range(successful_frame_files)
              <=> ReturnedValidFile(k)
  /\ (pc = "returned" /\ tasks # <<>> /\ AllCollected /\ disable_cleaning) =>
       (error = "no_valid_frames" <=> \A k \in 1..Len(tasks) : ~ReturnedValidFile(k))
  /\ error = "no_valid_frames" =>
       /\ report = "error"
       /\ successful_frame_files = <<>>
       /\ video = None

C10_Witness ==
  /\ pc = "encoding"
  /\ \E k \in 1..Len(tasks) : fate[k] = "empty_file"
  /\ \E k \in 1..Len(tasks) : fate[k] = "file_removed"
  /\ \E k \in 1..Len(tasks) : fate[k] = "rendered"

\* The frames of the tasks with the given fate, as file names.
FilesWithFate(f) ==
  {FrameFilename(tasks[k].original_index) : k \in {j \in 1..Len(tasks) : fate[j] = f}}

\* C11: during encoding a frame file that cannot be read or appended is
\* skipped with a warning and the remaining frames are still appended in
\* order; the run reports that the video was saved only if at least one frame
\* was appended to the video.
C11_SavedOnlyIfAppended ==
  (pc = "returned" /\ ~IsNone(video)) =>
    /\ StrictlyAscending(FrameIndexes(Val(video)))
    /\ encoder = "ok" => FilesWithFate("rendered") \subseteq Range(Val(video))
    /\ \A f \in FilesWithFate("unreadable_file") :
         /\ f \notin Range(Val(video))
         /\ Msg("error_processing_frame", "", FrameIndexOf(f)) \in log
    /\ report = "saved" => Val(video) # <<>>

\* The loader has merged the tables: aligned is the merged table, one row for
\* each row of the ATT table, before the essential dropna.
Merged == aligned # NoTable
AttRows == Val(dataframes["ATT"]).rows
\* The distance in time of row j of a table to the instant r.
TimeTo(rows, j, r) == Abs(Timestamp(rows[j]) - r)
\* The rows of a table nearest in time to the instant r.
NearestRows(rows, r) ==
  {j \in 1..Len(rows) : \A i \in 1..Len(rows) : TimeTo(rows, j, r) <= TimeTo(rows, i, r)}
\* The data columns a loaded table brings to the merged table.
DataColumns(msg_type) == Val(dataframes[msg_type]).columns \ {"timestamp"}
MergedTypes == {"IMU"} \cup Range(loaded_optional_types)

\* C13: for every merged non-reference stream S and every reference (ATT)
\* instant r: when the S row nearest in time to r is at most the tolerance
\* away, the fields of such a nearest row are the S fields of r's aligned
\* row; when it is further away, every S field of that row is null.
C13_NearestWithinTolerance ==
  Merged =>
    \A S \in MergedTypes : \A k \in 1..Len(aligned.rows) :
      LET rows    == Val(dataframes[S]).rows
          r       == Timestamp(aligned.rows[k])
          nearest == NearestRows(rows, r)
      IN  IF \E j \in nearest : TimeTo(rows, j, r) <= tolerance
          THEN \E j \in nearest :
                 \A c \in DataColumns(S) : aligned.rows[k][c] = rows[j][c]
          ELSE \A c \in DataColumns(S) : IsNone(aligned.rows[k][c])

\* An IMU row exactly the tolerance away is attached, one further away is
\* not, and somewhere two rows are equally near.
C13_Witness ==
  /\ Merged
  /\ \E k \in 1..Len(aligned.rows) :
       /\ ~IsNone(aligned.rows[k]["GyrX"])
       /\ \A j \in 1..Len(Val(dataframes["IMU"]).rows) :
            TimeTo(Val(dataframes["IMU"]).rows, j, Timestamp(aligned.rows[k])) >= tolerance
  /\ \E k \in 1..Len(aligned.rows) : IsNone(aligned.rows[k]["GyrX"])
  /\ \E k \in 1..Len(aligned.rows) :
       /\ ~IsNone(aligned.rows[k]["GyrX"])
       /\ Cardinality(NearestRows(Val(dataframes["IMU"]).rows,
                                  Timestamp(aligned.rows[k]))) >= 2

\* row restricted to the columns cols.
Restrict(row, cols) == [c \in cols |-> row[c]]
AttColumns == Range(REQUIRED_COLS["ATT"])

RECURSIVE IsSubsequence(_, _)
\* s is t with some of its elements left out.
IsSubsequence(s, t) ==
  IF s = <<>> THEN TRUE
  ELSE IF t = <<>> THEN FALSE
  ELSE IF Head(s) = Head(t) THEN IsSubsequence(Tail(s), Tail(t))
  ELSE IsSubsequence(s, Tail(t))

\* The essential dropna has run.
Dropped == filtered # NoTable

\* C14: before the essential dropna the merged table has exactly one row for
\* each row of the ATT table, in the same order, whatever streams are merged;
\* the dropna only removes rows and never adds, duplicates or reorders them.
C14_OneRowPerReferenceRow ==
  /\ Merged =>
       /\ Len(aligned.rows) = Len(AttRows)
       /\ \A k \in 1..Len(AttRows) :
            Restrict(aligned.rows[k], AttColumns) = AttRows[k]
  /\ Dropped =>
       /\ filtered.columns = aligned.columns
       /\ IsSubsequence(filtered.rows, aligned.rows)

\* Rows were dropped and rows were kept, with an optional stream merged whose
\* rows are closer together than the ATT rows.
C14_Witness ==
  /\ Dropped
  /\ loaded_optional_types # <<>>
  /\ Len(filtered.rows) >= 2
  /\ Len(filtered.rows) < Len(aligned.rows)
  /\ \E S \in MergedTypes : \E k \in 1..Len(aligned.rows) :
       Cardinality({j \in 1..Len(Val(dataframes[S]).rows) :
                      TimeTo(Val(dataframes[S]).rows, j, Timestamp(aligned.rows[k]))
                        <= tolerance}) >= 2

\* The essential fields: the required fields of ATT and IMU, and the two
\* pilot-input fields when RCIN was loaded and both are columns of the merged
\* table.
PilotInputFields == {"RCIN_C1_Roll", "RCIN_C2_Pitch"}
EssentialFields ==
  AttColumns \cup Range(REQUIRED_COLS["IMU"])
    \cup (IF "RCIN" \in Range(loaded_optional_types)
             /\ PilotInputFields \subseteq aligned.columns
          THEN PilotInputFields ELSE {})
HasNullEssential(row) == \E c \in EssentialFields : IsNone(row[c])

\* C15: the completeness filter drops exactly the aligned rows in which at
\* least one essential field is null; a null in any other optional field
\* never causes a row to be dropped.
C15_DropsExactlyEssentialNulls ==
  Dropped =>
    filtered.rows = SelectSeq(aligned.rows, LAMBDA row : ~HasNullEssential(row))

\* RCIN is loaded with both columns: a row is dropped for a null pilot input
\* alone, and another row is kept.
C15_Witness ==
  /\ Dropped
  /\ "RCIN" \in Range(loaded_optional_types)
  /\ PilotInputFields \subseteq aligned.columns
  /\ filtered.rows # <<>>
  /\ \E k \in 1..Len(aligned.rows) :
       /\ IsNone(aligned.rows[k]["RCIN_C1_Roll"])
       /\ ~IsNone(aligned.rows[k]["RCIN_C2_Pitch"])
       /\ ~IsNone(aligned.rows[k]["Roll"])
       /\ ~IsNone(aligned.rows[k]["GyrX"])
       /\ aligned.rows[k] \notin Range(filtered.rows)

\* create_flight_video was never entered: nothing clipped, planned or rendered.
NeverCalled ==
  /\ pc = "not_called"
  /\ df_merged = <<>>
  /\ df_clipped = <<>>
  /\ all_frame_timestamps = <<>>
  /\ tasks = <<>>
  /\ temp_dir = "none"
  /\ video = None
\* More than 20% of the merged rows were dropped.
LostMoreThanFifth == 5 * Len(filtered.rows) < 4 * Len(aligned.rows)
DataLossWarned ==
  Msg("significant_data_loss", "", Len(aligned.rows) - Len(filtered.rows)) \in log

\* C16: when no row survives the completeness filter, load_and_merge_data
\* returns no table and the program stops with a failure before any clipping,
\* planning or rendering; when more than 20% of the rows are lost but some
\* remain, a warning is printed and the run goes on with the remaining rows.
C16_EmptyFailsLossWarns ==
  Dropped =>
    IF filtered.rows = <<>>
    THEN /\ main \in {"returned_none", "exited"}
         /\ main = "exited" => exit_code = Some(1)
         /\ NeverCalled
    ELSE /\ LostMoreThanFifth => DataLossWarned
         /\ main = "returned" \/ (pc # "not_called" /\ df_merged = Index(filtered.rows))
         /\ main = "returned" => exit_code = None

\* Every merged row was dropped and the program has exited with a failure.
C16_Witness ==
  /\ Dropped
  /\ aligned.rows # <<>>
  /\ filtered.rows = <<>>
  /\ main = "exited"
  /\ exit_code = Some(1)

\* The stages of the pipeline, in their order, and the stage a state is in.
Stages == <<"INIT", "LOADED", "ALIGNED", "FILTERED", "PLANNED", "RENDERING",
            "SEQUENCED", "ENCODED">>
Failed == main = "returned_none" \/ exit_code = Some(1) \/ report = "error"
Stage ==
  IF Failed THEN "FAILED"
  ELSE IF pc = "returned" THEN "ENCODED"
  ELSE IF pc = "encoding" THEN "SEQUENCED"
  ELSE IF pc = "rendering"
       THEN IF \E k \in 1..Len(future) : future[k].state # "pending"
            THEN "RENDERING" ELSE "PLANNED"
  ELSE IF main \in {"returned", "video"} THEN "FILTERED"
  ELSE IF main = "final" THEN "ALIGNED"
  ELSE IF main \in {"distance", "merge"} THEN "LOADED"
  ELSE "INIT"
StageAfter(st) ==
  IF \E k \in 1..(Len(Stages) - 1) : Stages[k] = st
  THEN Stages[(CHOOSE k \in 1..(Len(Stages) - 1) : Stages[k] = st) + 1]
  ELSE st

\* What makes a run fail: a required stream that could not be loaded, an
\* aligned table with no row left, no frame planned, no valid rendered frame,
\* a video writer that fails.
MissingRequiredStream ==
  main \notin {"load_required", "video"} /\ pc = "not_called"
    /\ \E m \in Range(RequiredTypes) : IsNone(dataframes[m])
EmptyAlignedTable == Dropped /\ filtered.rows = <<>>
ZeroFrames == pc \notin {"not_called", "start"} /\ original_indices = <<>>
ZeroValidFrames ==
  pc \in {"encoding", "returned"} /\ tasks # <<>> /\ successful_frame_files = <<>>
EncoderFailure == encoder \in {"open_raises", "append_raises"}
FailureCause ==
  \/ MissingRequiredStream
  \/ EmptyAlignedTable
  \/ ZeroFrames
  \/ ZeroValidFrames
  \/ EncoderFailure

\* One step of the program, seen as a step of the pipeline.
StageStep ==
  /\ Stage \in {"FAILED", "ENCODED"} => Stage' = Stage
  /\ Stage' \in {Stage, StageAfter(Stage), "FAILED"}
  /\ FailureCause' => (Stage' = "FAILED" /\ report' # "saved")

\* C12: the pipeline only advances INIT, LOADED, ALIGNED, FILTERED, PLANNED,
\* RENDERING, SEQUENCED, ENCODED in that order; FAILED and ENCODED are
\* terminal; and each of a missing required stream, an empty aligned table,
\* zero frames, zero valid rendered frames and an encoder failure leads to
\* FAILED and never to a report of success.
C12_StagesInOrderFailuresFail == [][StageStep]_vars

\* The same with the encoder failure left out of the causes (a check of the
\* four other causes).
StageStepWithoutEncoder ==
  /\ Stage \in {"FAILED", "ENCODED"} => Stage' = Stage
  /\ Stage' \in {Stage, StageAfter(Stage), "FAILED"}
  /\ (FailureCause' /\ ~EncoderFailure') => (Stage' = "FAILED" /\ report' # "saved")
StagesInOrderOtherFailuresFail == [][StageStepWithoutEncoder]_vars

\* The rows of a file whose timestamp can be resolved.
UsableRows(file) ==
  IF "timestamp" \in file.columns THEN DropNa(file.rows, {"timestamp"}) ELSE <<>>
\* A required file with a missing path, a missing file, a missing required
\* column, no row, or fewer rows than the minimum.
RequiredDefect(msg_type) ==
  LET file == csv_filepaths[msg_type]
  IN  \/ file.kind \in {"none", "not_found"}
      \/ Range(REQUIRED_COLS[msg_type]) \ file.columns # {}
      \/ file.rows = <<>>
      \/ Len(UsableRows(file)) < MIN_ROWS_THRESHOLD
\* The fields expected of an optional file, and the names they are given.
ExpectedFields(msg_type) == (DOMAIN OPTIONAL_COLS_TO_SELECT[msg_type]) \ {"timestamp"}
RenamedFields(msg_type, fields) ==
  {OPTIONAL_COLS_TO_SELECT[msg_type][c] : c \in fields}
\* An optional file that is missing, or has none of the expected fields; one
\* that lacks some of them; one that has some of them and enough rows.
MissingFile(msg_type) == csv_filepaths[msg_type].kind = "not_found"
NoUsableField(msg_type) ==
  /\ csv_filepaths[msg_type].kind = "csv"
  /\ ExpectedFields(msg_type) \cap csv_filepaths[msg_type].columns = {}
MissingSomeField(msg_type) ==
  /\ csv_filepaths[msg_type].kind = "csv"
  /\ ExpectedFields(msg_type) \ csv_filepaths[msg_type].columns # {}
UsableFile(msg_type) ==
  /\ csv_filepaths[msg_type].kind = "csv"
  /\ ExpectedFields(msg_type) \cap csv_filepaths[msg_type].columns # {}
  /\ Len(UsableRows(csv_filepaths[msg_type])) >= MIN_ROWS_THRESHOLD
\* The optional type is not listed as loaded and brings no column.
Excluded(msg_type) ==
  /\ msg_type \notin Range(loaded_optional_types)
  /\ IsNone(dataframes[msg_type])
  /\ Merged => aligned.columns
                 \cap RenamedFields(msg_type, ExpectedFields(msg_type)) = {}
\* The required types are loaded and the loop over the optional types is over.
OptionalLoopDone == main \in {"distance", "merge", "final", "returned", "video"}
\* The required streams are aligned whatever happened to the optional ones.
RequiredAligned ==
  /\ main \notin {"returned_none", "exited"}
  /\ Merged => /\ Len(aligned.rows) = Len(AttRows)
               /\ {"Roll", "GyrX"} \subseteq aligned.columns
\* A broken required stream makes the run fail with no aligned table.
RequiredDefectFails ==
  (main # "load_required" /\ \E m \in Range(RequiredTypes) : RequiredDefect(m)) =>
    /\ main \in {"returned_none", "exited"}
    /\ main = "exited" => exit_code = Some(1)
    /\ aligned = NoTable
    /\ filtered = NoTable
    /\ NeverCalled

\* C17 as stated: a required stream with a missing path, a missing file, a
\* missing required column, no row or fewer rows than the minimum makes the
\* run fail with no aligned table; an optional stream with a missing file,
\* missing individual fields or no usable data field is excluded, and the
\* alignment of the remaining streams still succeeds.
C17_MissingFieldsExclude ==
  /\ RequiredDefectFails
  /\ OptionalLoopDone =>
       \A m \in Range(OptionalTypes) :
         (MissingFile(m) \/ MissingSomeField(m) \/ NoUsableField(m))
           => (Excluded(m) /\ RequiredAligned)

\* C17 amended: the same for required streams; an optional stream with a
\* missing file or none of its fields is excluded and the alignment of the
\* remaining streams still succeeds; an optional stream that lacks only some
\* of its fields is loaded with the fields it has: it is listed as loaded and
\* contributes exactly those columns.
C17_MissingFieldsSkipped ==
  /\ RequiredDefectFails
  /\ OptionalLoopDone =>
       \A m \in Range(OptionalTypes) :
         /\ (MissingFile(m) \/ NoUsableField(m)) => (Excluded(m) /\ RequiredAligned)
         /\ (MissingSomeField(m) /\ UsableFile(m)) =>
              /\ m \in Range(loaded_optional_types)
              /\ RequiredAligned
              /\ Merged =>
                   aligned.columns \cap RenamedFields(m, ExpectedFields(m))
                     = RenamedFields(m, ExpectedFields(m)
                                          \cap csv_filepaths[m].columns)

\* An RCIN file with one of its two fields is merged.
C17_Witness ==
  /\ Merged
  /\ MissingSomeField("RCIN")
  /\ "RCIN" \in Range(loaded_optional_types)
  /\ \E k \in 1..Len(aligned.rows) : ~IsNone(aligned.rows[k]["RCIN_C1_Roll"])

\* A POS table with latitude and longitude is loaded and the distance from
\* home has been dealt with.
PosWithCoordinates ==
  /\ main \notin {"load_required", "load_optional", "distance"}
  /\ ~IsNone(dataframes["POS"])
  /\ {"POS_Lat", "POS_Lng"} \subseteq Val(dataframes["POS"]).columns
PosRows == Val(dataframes["POS"]).rows
BothCoordinates(row) == ~IsNone(row["POS_Lat"]) /\ ~IsNone(row["POS_Lng"])
BothFinite(row) == IsFinite(row["POS_Lat"]) /\ IsFinite(row["POS_Lng"])
\* The POS records with both coordinates, and the earliest of them.
ValidPos == {j \in 1..Len(PosRows) : BothCoordinates(PosRows[j])}
EarliestValidPos ==
  {j \in ValidPos : \A i \in ValidPos : Timestamp(PosRows[j]) <= Timestamp(PosRows[i])}
\* The distance from home of a row of the merged table, null without the column.
DistanceOf(table, k) ==
  IF "Distance_From_Home" \in table.columns
  THEN table.rows[k]["Distance_From_Home"] ELSE None
\* The POS record matched to row k of the merged table has both coordinates
\* valid (finite numbers).
MatchedPosValid(table, k) ==
  \E j \in NearestRows(PosRows, Timestamp(table.rows[k])) :
    /\ TimeTo(PosRows, j, Timestamp(table.rows[k])) <= tolerance
    /\ table.rows[k]["POS_Lat"] = PosRows[j]["POS_Lat"]
    /\ table.rows[k]["POS_Lng"] = PosRows[j]["POS_Lng"]
    /\ BothFinite(PosRows[j])

\* C18: with a POS stream that has latitude and longitude, the home point is
\* the earliest POS record with both coordinates non-null, and
\* Distance_From_Home is non-null on exactly the aligned rows whose matched
\* POS record has both coordinates, null on every other row.
C18_HomeAndDistance ==
  PosWithCoordinates =>
    /\ IF ValidPos = {} THEN IsNone(home)
       ELSE \E j \in EarliestValidPos :
              home = Some([lat |-> PosRows[j]["POS_Lat"], lng |-> PosRows[j]["POS_Lng"]])
    /\ Merged => \A k \in 1..Len(aligned.rows) :
                   ~IsNone(DistanceOf(aligned, k)) <=> MatchedPosValid(aligned, k)
    /\ Dropped => \A k \in 1..Len(filtered.rows) :
                    ~IsNone(DistanceOf(filtered, k)) <=> MatchedPosValid(filtered, k)

\* The frames that were planned but are not in the video.
LostFrames ==
  {i \in Range(original_indices) : FrameFilename(i) \notin Range(Val(video))}

\* The messages that name the frame they are about.
FrameMessages ==
  {"error_generating_figure", "error_saving_frame", "task_exception",
   "frame_not_found", "frame_empty", "error_processing_frame"}

\* Something was printed about frame i.
Reported(i) == \E m \in log : m[1] \in FrameMessages /\ m[3] = i

\* C19: once the video is written, every planned frame that is not in it was
\* reported with the reason of its skip: no planned frame is lost silently.
C19_NoSilentLoss ==
  (pc = "returned" /\ ~IsNone(video)) => \A i \in LostFrames : Reported(i)

\* C20: the aligned table returned by load_and_merge_data has strictly
\* increasing timestamps: no two of its rows share a timestamp.
C20_StrictlyIncreasingTimestamps ==
  (main = "returned" /\ Dropped) => StrictlyAscending(Index(filtered.rows))

\* The returned table is in ascending order of timestamp, repeats allowed.
ReturnedInTimeOrder ==
  (main = "returned" /\ Dropped) =>
    \A a, b \in 1..Len(filtered.rows) :
      a < b => Timestamp(filtered.rows[a]) <= Timestamp(filtered.rows[b])

\* The orders in which the streams of the set S can be merged.
MergeOrders(S) == {q \in SeqsOver(S, Cardinality(S)) : Range(q) = S}

\* The table obtained by merging the loaded streams into ATT in the given
\* order, each with merge_asof.
MergedInOrder(order) ==
  MergeOptional(Val(dataframes["ATT"]), dataframes, order, 1)

\* The values a table attaches from the stream msg_type, row by row.
AttachedFrom(table, msg_type) ==
  [k \in 1..Len(table.rows) |-> Restrict(table.rows[k], DataColumns(msg_type))]

\* C21: the values attached to a reference instant from a stream are the
\* same whatever other streams are merged and in whatever order: they are the
\* values of the merge of that stream alone into ATT, and so are those of the
\* merge of any subset of the loaded streams in any order.
C21_JoinOrderIndependent ==
  Merged =>
    \A m \in MergedTypes :
      /\ Index(aligned.rows) = Index(AttRows)
      /\ AttachedFrom(aligned, m) = AttachedFrom(MergedInOrder(<<m>>), m)
      /\ \A S \in SUBSET MergedTypes :
           m \in S =>
             \A order \in MergeOrders(S) :
               AttachedFrom(MergedInOrder(order), m) = AttachedFrom(aligned, m)

\* Three streams were merged, each attaches a value to some reference row,
\* each optional one leaves another row without a value, and the two optional
\* streams do not attach to the same rows.
C21_Witness ==
  /\ Merged
  /\ Cardinality(MergedTypes) = 3
  /\ \A m \in MergedTypes :
       \E k \in 1..Len(aligned.rows) :
         \A c \in DataColumns(m) : ~IsNone(aligned.rows[k][c])
  /\ \A m \in Range(loaded_optional_types) :
       \E k \in 1..Len(aligned.rows) :
         \A c \in DataColumns(m) : IsNone(aligned.rows[k][c])
  /\ \E k \in 1..Len(aligned.rows) :
       /\ ~IsNone(aligned.rows[k]["RCIN_C1_Roll"])
       /\ IsNone(aligned.rows[k]["POS_Lat"])

\* The validation loop has started.
ValidationStarted == \E m \in log : m[1] = "compiling_valid_frames"

\* frame_results holds one entry for each index of S and no other entry.
OneEntryEach(results, S) ==
  /\ DictKeys(results) = S
  /\ Len(results) = Cardinality(S)

\* The indices of the tasks whose future was consumed by the as_completed loop.
CollectedIndices ==
  {tasks[k].original_index : k \in {j \in 1..Len(tasks) : future[j].state = "collected"}}

\* What a worker can hand back for a task: raise, or return any index (the
\* frame indices of the run and one beyond them) with a filename or None.
PossibleFutures ==
  {Raised} \cup {Returned(j, f) : j \in 0..Len(all_frame_timestamps),
                                   f \in {None, Some(FrameFilename(0))}}

\* C22: there is one future for each planned task and one task for each
\* planned index; the as_completed loop leaves one entry of frame_results for
\* each future it consumed, under the index of the task, whatever the future
\* holds (a raised exception or a mismatched index included); validation
\* starts only when every future is consumed, and frame_results then holds
\* exactly one entry for every planned index and no other.
C22_OneResultPerPlannedIndex ==
  pc \in {"rendering", "encoding", "returned"} =>
    /\ Len(future) = Len(tasks)
    /\ [k \in 1..Len(tasks) |-> tasks[k].original_index] = original_indices
    /\ \A a, b \in 1..Len(tasks) :
         a # b => tasks[a].original_index # tasks[b].original_index
    /\ OneEntryEach(frame_results, CollectedIndices)
    /\ \A k \in 1..Len(tasks) :
         future[k].state # "collected" =>
           \A fut \in PossibleFutures :
             OneEntryEach(StoreResult(frame_results, tasks[k].original_index, fut),
                          CollectedIndices \cup {tasks[k].original_index})
    /\ ValidationStarted =>
         /\ AllCollected
         /\ OneEntryEach(frame_results, Range(original_indices))

\* Validation has started on a run of two tasks or more whose futures were
\* consumed out of index order, one of them having raised.
C22_Witness ==
  /\ ValidationStarted
  /\ Len(tasks) >= 2
  /\ CompletedOutOfOrder
  /\ \E k \in 1..Len(tasks) : future[k].raised
  /\ \E k \in 1..Len(tasks) : ~future[k].raised

\* The file a worker wrote for task k, if it returned one.
WrittenBy(k) ==
  IF future[k].state = "pending" \/ future[k].raised THEN None
  ELSE Val(future[k].result).filename

\* C23: the file of a frame task is named from its original (pre-slicing)
\* frame index: the task at position k of the sliced list renders the instant
\* of index original_indices[k] and writes the file named from that index; two
\* distinct tasks never write the same file; the filename recorded under index
\* i is the name made from i.
C23_FileNamedByOriginalIndex ==
  pc \in {"rendering", "encoding", "returned"} =>
    /\ \A k \in 1..Len(tasks) :
         /\ tasks[k].current_time = all_frame_timestamps[original_indices[k] + 1]
         /\ ~IsNone(WrittenBy(k)) =>
              /\ Val(WrittenBy(k)) = FrameFilename(original_indices[k])
              /\ FrameIndexOf(Val(WrittenBy(k))) = original_indices[k]
    /\ \A a, b \in 1..Len(tasks) :
         (a # b /\ ~IsNone(WrittenBy(a)) /\ ~IsNone(WrittenBy(b)))
           => WrittenBy(a) # WrittenBy(b)
    /\ \A e \in Range(frame_results) :
         ~IsNone(e.value) => Val(e.value) = FrameFilename(e.key)
    /\ \A f \in files : \E i \in Range(original_indices) : f.name = FrameFilename(i)

\* A sliced run (the first planned index is not 0) in which two tasks wrote
\* their files and the results were recorded out of index order.
C23_Witness ==
  /\ pc = "returned"
  /\ start_frame > 0
  /\ Len(tasks) >= 2
  /\ original_indices[1] > 0
  /\ \A k \in 1..Len(tasks) : ~IsNone(WrittenBy(k))
  /\ CompletedOutOfOrder
  /\ ~IsNone(video)

\* How a run that created its scratch directory ended.
Ending ==
  IF pc # "returned" \/ tasks = <<>> THEN "none"
  ELSE IF report = "saved" THEN "success"
  ELSE IF error = "no_valid_frames" THEN "zero_valid_frames"
  ELSE IF error = "exception" /\ encoder = "none" THEN "pool_exception"
  ELSE IF error = "exception" THEN "encoder_exception"
  ELSE "other"

\* The files the workers wrote are still in the scratch directory.
WrittenFilesKept ==
  \A k \in 1..Len(tasks) :
    fate[k] \in {"rendered", "empty_file", "unreadable_file"}
      => FileExists(files, FrameFilename(tasks[k].original_index))

\* C24: once the scratch directory exists it is there until the run ends;
\* when the run ends, in success, with zero valid frames, or with an
\* exception from the pool or from the encoder, the directory is removed with
\* its files, unless disable_cleaning is set: then the directory and the
\* files written to it are kept in each of those cases.
C24_ScratchRemovedUnlessKept ==
  /\ pc \in {"rendering", "encoding"} => temp_dir = "exists"
  /\ (pc = "returned" /\ tasks # <<>>) =>
       /\ Ending \in {"success", "zero_valid_frames", "pool_exception",
                      "encoder_exception"}
       /\ IF disable_cleaning
          THEN temp_dir = "exists" /\ WrittenFilesKept
          ELSE temp_dir = "removed" /\ files = {}

\* The pool raised after a worker had written a frame file, and the scratch
\* directory was removed.
C24_Witness ==
  /\ Ending = "pool_exception"
  /\ ~disable_cleaning
  /\ \E k \in 1..Len(tasks) : fate[k] = "rendered"
  /\ temp_dir = "removed"

\* The other endings, with and without disable_cleaning.
EndingsReached(ending, cleaning) ==
  Ending = ending /\ disable_cleaning = cleaning
    /\ \E k \in 1..Len(tasks) : fate[k] \in {"rendered", "empty_file"}
PoolExceptionKept == EndingsReached("pool_exception", TRUE)
EncoderExceptionRemoved == EndingsReached("encoder_exception", FALSE)
EncoderExceptionKept == EndingsReached("encoder_exception", TRUE)
ZeroValidFramesRemoved == EndingsReached("zero_valid_frames", FALSE)
ZeroValidFramesKept == EndingsReached("zero_valid_frames", TRUE)
SuccessRemoved == EndingsReached("success", FALSE)
SuccessKept == EndingsReached("success", TRUE)

\* One step leaves the clipped table, the table it was cut from, the tasks
\* and every window already handed to a renderer as they are.
TableStep ==
  pc \in {"rendering", "encoding", "returned"} =>
    /\ df_clipped' = df_clipped
    /\ df_merged' = df_merged
    /\ tasks' = tasks
    /\ \A k \in 1..Len(df_window) :
         ~IsNone(df_window[k]) => df_window'[k] = df_window[k]

\* C25: the clipped table is never modified after it is built: no step of
\* rendering, sequencing or encoding changes it or a window already taken
\* from it, and the window a task gets is the selection from that same table
\* for its own instant, whatever the other tasks did before.
C25_ClippedTableReadOnly ==
  [][/\ TableStep
     /\ \A k \in 1..Len(df_window) :
          (IsNone(df_window[k]) /\ ~IsNone(df_window'[k])) =>
            df_window'[k] = DataWindow(ClipRows(df_merged, EffectiveClipStart,
                                                EffectiveClipEnd),
                                       tasks[k].current_time,
                                       window_duration_secs)]_vars

\* Two tasks have taken windows that share a row, the later frame first.
C25_Witness ==
  \E a, b \in 1..Len(tasks) :
    /\ a < b
    /\ ~IsNone(df_window[a]) /\ ~IsNone(df_window[b])
    /\ Range(Val(df_window[a])) \cap Range(Val(df_window[b])) # {}
    /\ Val(df_window[a]) # Val(df_window[b])
    /\ future[b].state = "collected"
    /\ future[a].state = "done"

\* The files given on the command line that are CSV files.
CsvTypes == {m \in MsgTypes : csv_filepaths[m].kind \in {"csv", "csv_int"}}

\* The loops over the required and the optional types are over.
LoadingDone == main \in {"distance", "merge", "final", "returned"}

\* C26: a table is loaded from a file only if at least MIN_ROWS_THRESHOLD of
\* its rows are left once the rows without a resolvable timestamp are
\* dropped; the loaded table holds exactly those rows, none with a null
\* timestamp, in ascending order of timestamp.
C26_MinRowsSortedNoNull ==
  \A m \in MsgTypes :
    ~IsNone(dataframes[m]) =>
      LET rows == Val(dataframes[m]).rows
      IN  /\ m \in CsvTypes
          /\ Len(UsableRows(csv_filepaths[m])) >= MIN_ROWS_THRESHOLD
          /\ Len(rows) = Len(UsableRows(csv_filepaths[m]))
          /\ \A k \in 1..Len(rows) : ~IsNone(rows[k]["timestamp"])
          /\ \A a, b \in 1..Len(rows) :
               a < b => Timestamp(rows[a]) <= Timestamp(rows[b])
          /\ \A t \in 0..MaxLoadTime :
               csv_filepaths[m].kind = "csv" =>
               Cardinality({k \in 1..Len(rows) : Timestamp(rows[k]) = t})
                 = Cardinality({k \in 1..Len(csv_filepaths[m].rows) :
                                  csv_filepaths[m].rows[k]["timestamp"] = Some(t)})

\* A file of three rows, out of order and one without a resolvable timestamp,
\* was loaded as a table of two rows.
C26_Witness ==
  /\ ~IsNone(dataframes["ATT"])
  /\ Len(csv_filepaths["ATT"].rows) = MIN_ROWS_THRESHOLD + 1
  /\ Len(Val(dataframes["ATT"]).rows) = MIN_ROWS_THRESHOLD
  /\ \E a, b \in 1..Len(csv_filepaths["ATT"].rows) :
       /\ a < b
       /\ ~IsNone(csv_filepaths["ATT"].rows[a]["timestamp"])
       /\ ~IsNone(csv_filepaths["ATT"].rows[b]["timestamp"])
       /\ Val(csv_filepaths["ATT"].rows[a]["timestamp"])
            > Val(csv_filepaths["ATT"].rows[b]["timestamp"])

\* A file with fewer resolvable rows than the minimum is never loaded.
TooFewRowsNotLoaded ==
  \A m \in MsgTypes :
    (main # "load_required" /\ m \in CsvTypes
       /\ (m \in Range(OptionalTypes) => LoadingDone)
       /\ Len(UsableRows(csv_filepaths[m])) < MIN_ROWS_THRESHOLD)
      => IsNone(dataframes[m])

\* The instants, in ticks, that the integers N of a timestamp column stand
\* for when N counts microseconds since the epoch.
MicrosecondInstants(file) ==
  [k \in 1..Len(file.rows) |-> Val(file.rows[k]["timestamp"]) \div UsPerTick]

\* C27: a table loaded from a file whose timestamp column holds integers N
\* has its rows at the instants epoch + N microseconds.
C27_IntegerTimestampsAreMicroseconds ==
  \A m \in MsgTypes :
    (csv_filepaths[m].kind = "csv_int" /\ ~IsNone(dataframes[m])) =>
      LET rows == Val(dataframes[m]).rows
          file == [csv_filepaths[m] EXCEPT !.rows = UsableRows(csv_filepaths[m])]
      IN  \A t \in 0..MaxLoadTime :
            Cardinality({k \in 1..Len(rows) : Timestamp(rows[k]) = t})
              = Cardinality({k \in 1..Len(file.rows) :
                               MicrosecondInstants(file)[k] = t})

\* The rows of a file with integer timestamps are loaded at the instants the
\* first attempt gives them: epoch + N nanoseconds.
IntegerTimestampsAreNanoseconds ==
  \A m \in MsgTypes :
    (csv_filepaths[m].kind = "csv_int" /\ ~IsNone(dataframes[m])) =>
      \A k \in 1..Len(Val(dataframes[m]).rows) :
        \E j \in 1..Len(csv_filepaths[m].rows) :
          /\ ~IsNone(csv_filepaths[m].rows[j]["timestamp"])
          /\ Timestamp(Val(dataframes[m]).rows[k])
               = Val(csv_filepaths[m].rows[j]["timestamp"]) \div NsPerTick

\* A file with integer timestamps that are not all in the first tick was
\* loaded.
IntegerTimestampsLoaded ==
  /\ csv_filepaths["ATT"].kind = "csv_int"
  /\ ~IsNone(dataframes["ATT"])
  /\ \E k \in 1..Len(csv_filepaths["ATT"].rows) :
       Val(csv_filepaths["ATT"].rows[k]["timestamp"]) >= UsPerTick

\* A file with a timestamp that cannot be resolved is loaded without that
\* row: the load does not fail.
UnresolvedRowsDropped ==
  \A m \in MsgTypes :
    (/\ m \in CsvTypes
     /\ LoadingDone
     /\ IsNone(exit_code)
     /\ "timestamp" \in csv_filepaths[m].columns
     /\ Len(UsableRows(csv_filepaths[m])) >= MIN_ROWS_THRESHOLD
     /\ m \in {"ATT", "IMU"})
      => /\ ~IsNone(dataframes[m])
         /\ Len(Val(dataframes[m]).rows) = Len(UsableRows(csv_filepaths[m]))

\* The distance step of the loader is over and a POS table is loaded.
DistanceStepOver ==
  /\ main \in {"merge", "final", "returned"}
  /\ ~IsNone(dataframes["POS"])
  /\ {"POS_Lat", "POS_Lng"} \subseteq Val(dataframes["POS"]).columns

\* C28: haversine returns null whenever one of its four inputs is NaN or
\* infinite (checked where the distance step is about to run), and the
\* distance step leaves a null distance, without failing the load, on every
\* position record with a non-finite coordinate.
C28_NonFiniteDistanceIsNull ==
  /\ main = "distance" =>
       \A lat1, lon1, lat2, lon2 \in {None, Some(Infinity), Some(1), Some(2)} :
         (\E x \in {lat1, lon1, lat2, lon2} : ~IsFinite(x))
           => IsNone(haversine(lat1, lon1, lat2, lon2))
  /\ DistanceStepOver =>
       /\ IsNone(exit_code)
       /\ \A k \in 1..Len(PosRows) :
            ~BothFinite(PosRows[k]) => IsNone(DistanceOf(Val(dataframes["POS"]), k))

\* The distance step gave a distance to one position record and null to a
\* record with an infinite coordinate.
C28_Witness ==
  /\ DistanceStepOver
  /\ \E k \in 1..Len(PosRows) :
       /\ BothCoordinates(PosRows[k]) /\ ~BothFinite(PosRows[k])
       /\ IsNone(DistanceOf(Val(dataframes["POS"]), k))
  /\ \E k \in 1..Len(PosRows) : ~IsNone(DistanceOf(Val(dataframes["POS"]), k))

\* The distance step ran with an infinite home position.
InfiniteHome ==
  /\ DistanceStepOver
  /\ ~IsNone(home)
  /\ (Val(home).lat = Some(Infinity) \/ Val(home).lng = Some(Infinity))

\* The distance step ran on a record with an infinite longitude.
InfiniteLongitude ==
  /\ DistanceStepOver
  /\ ~IsNone(home)
  /\ \E k \in 1..Len(PosRows) : PosRows[k]["POS_Lng"] = Some(Infinity)

\* C29: the pool is created with max(1, cores - 1) workers: one worker when
\* the CPU count is not available or is 1, and never fewer than one.
C29_AtLeastOneWorker ==
  ~IsNone(num_workers) =>
    /\ Val(num_workers) >= 1
    /\ (IsNone(cpu_count) \/ cpu_count = Some(1)) => Val(num_workers) = 1
    /\ ~IsNone(cpu_count) =>
         Val(num_workers) = IF Val(cpu_count) - 1 > 1 THEN Val(cpu_count) - 1 ELSE 1

\* A pool was created on a machine that reports one core, and a worker ran.
C29_Witness ==
  /\ cpu_count = Some(1)
  /\ num_workers = Some(1)
  /\ \E k \in 1..Len(tasks) : future[k].state # "pending"

\* A pool was created on a machine that reports no CPU count, and on one that
\* reports more than two cores.
PoolWithoutCpuCount == IsNone(cpu_count) /\ num_workers = Some(1) /\ pc = "encoding"
PoolOnManyCores ==
  /\ pc = "encoding" /\ ~IsNone(cpu_count) /\ ~IsNone(num_workers)
  /\ Val(cpu_count) > 2
  /\ Val(num_workers) = Val(cpu_count) - 1

\* The two outcomes of a call of create_flight_video: the writer was opened,
\* the frames were handed to it and the success line was printed; or the
\* call ended on an error (an error line and a return, or an exception).
VideoWritten == ~IsNone(video) /\ Msg("video_saved", "", 0) \in log
ErrorReported == error # "none"
Terminated == pc = "returned" /\ (VideoWritten <=> ~ErrorReported)

\* C30: every call of create_flight_video ends, in exactly one of the two
\* outcomes (video written, error reported), provided that every submitted
\* task finishes.
C30_TerminatesInOneOutcome == (pc = "start") ~> Terminated

\* A call ended with a video although one frame failed and one was skipped
\* or failed as well.
C30_Witness ==
  /\ Terminated
  /\ VideoWritten
  /\ \E k \in 1..Len(tasks) : future[k].raised
  /\ \E k \in 1..Len(tasks) : fate[k] # "rendered"

\* A call that has ended stays ended, in one outcome.
OneOutcomeWhenReturned == pc = "returned" => (VideoWritten <=> ~ErrorReported)

====
